---- MODULE Spec2Model ----
(***************************************************************************)
(* A model of cluster/submit_pipeline.py: the pipeline execution engine    *)
(* (PipelineSubmitter).  The registry, the dependency mapping, the         *)
(* verdicts, the target closure, the run set, the batches and the          *)
(* submission driver are modelled from the source.                         *)
(*                                                                         *)
(* Text is a sequence of one-character strings, so that the string         *)
(* operations of the source (replace, split, endswith, "in") are computed. *)
(* A Python dict is a sequence of its keys in insertion order together     *)
(* with the values; a Python set is a TLA+ set, and where the source       *)
(* iterates over a set the iteration order is an input (any enumeration).  *)
(***************************************************************************)
EXTENDS Integers, Sequences, FiniteSets, TLC

(***************************************************************************)
(* Bounds of the model.                                                    *)
(***************************************************************************)
\* the number of lines of the oracle's graph dump when the planning methods
\* are called alone
MaxDotLines == 2

\* the number of lines of the oracle's graph dump in a run of the pipeline
MaxRunDotLines == 1

\* the number of lines of the oracle's status output
MaxStatusLines == 3

\* the longest list of branches given to merge_from_branches
MaxBranches == 2

(***************************************************************************)
(* Python's str and list operations.                                       *)
(***************************************************************************)
Range(s) == {s[i] : i \in 1..Len(s)}

\* x in s, for a list s (or a character x and a string s)
Contains(s, x) == \E i \in 1..Len(s) : s[i] = x

\* s.replace(a, b) for one-character a and b
Replace(s, a, b) == [i \in 1..Len(s) |-> IF s[i] = a THEN b ELSE s[i]]

\* sub in s, for strings
IsSubstring(sub, s) ==
    \E i \in 0..(Len(s) - Len(sub)) : SubSeq(s, i + 1, i + Len(sub)) = sub

\* s.endswith(suffix)
EndsWith(s, suffix) ==
    /\ Len(suffix) <= Len(s)
    /\ SubSeq(s, Len(s) - Len(suffix) + 1, Len(s)) = suffix

\* s.strip(chars)
Strip(s, chars) ==
    LET keep == {i \in 1..Len(s) : s[i] \notin chars}
        Min(S) == CHOOSE m \in S : \A n \in S : m <= n
        Max(S) == CHOOSE m \in S : \A n \in S : m >= n
    IN  IF keep = {} THEN <<>> ELSE SubSeq(s, Min(keep), Max(keep))

Whitespace == {" "}

\* the parts of job_key.split(":") of an identity "stage:step"
ColonAt(job_key) == CHOOSE i \in 1..Len(job_key) :
                        /\ job_key[i] = ":"
                        /\ \A j \in 1..(i - 1) : job_key[j] # ":"

StageOf(job_key) == SubSeq(job_key, 1, ColonAt(job_key) - 1)

StepOf(job_key) == SubSeq(job_key, ColonAt(job_key) + 1, Len(job_key))

\* f"{stage_name}:{step_name}"
JobKey(stage, step) == stage \o <<":">> \o step

\* the elements of a list in order, each once (first occurrence kept)
RECURSIVE Unique(_)
Unique(s) ==
    IF s = <<>> THEN <<>>
    ELSE LET front == Unique(SubSeq(s, 1, Len(s) - 1))
             last == s[Len(s)]
         IN  IF Contains(front, last) THEN front ELSE Append(front, last)

\* all enumerations of a finite set (the possible iteration orders of a set)
RECURSIVE Orders(_)
Orders(S) ==
    IF S = {} THEN {<<>>}
    ELSE UNION {{<<x>> \o rest : rest \in Orders(S \ {x})} : x \in S}

(***************************************************************************)
(* The Job Registry: the keys of job_configs in insertion order.  The      *)
(* resource requests of a JobConfig take no part in planning or in the     *)
(* submission protocol and are left out.                                   *)
(***************************************************************************)
a_x == JobKey(<<"a">>, <<"x">>)
a_y == JobKey(<<"a">>, <<"y">>)
b_z == JobKey(<<"b">>, <<"z">>)
c_w == JobKey(<<"c">>, <<"w">>)

Registries == {<<a_x, a_y, b_z>>, <<a_x, a_y, b_z, c_w>>}

\* the registry of the runs of the pipeline
RunRegistries == {<<a_x, a_y, b_z>>}

\* the node names the oracle uses: stage@step of a job, or a bare stage
NodeAt(job_key) == Replace(job_key, ":", "@")

\* registries for the name-matching methods: a step name used by two stages,
\* a step named like a stage, keys inserted out of lexical order
b_x == JobKey(<<"b">>, <<"x">>)
b_a == JobKey(<<"b">>, <<"a">>)

NameRegistries ==
    {<<a_x, a_y, b_z>>, <<b_z, a_y, a_x>>, <<a_x, b_x>>, <<a_x, a_y, b_a>>,
     <<b_x, a_x, a_y>>}

\* the names resolved: stage@step of a registered and of an unregistered
\* job, an identity, bare stages, the underscore-joined form, a step
ResolveNames ==
    {NodeAt(a_x), NodeAt(b_z), <<"c", "@", "x">>, a_x, <<"a">>, <<"b">>,
     <<"a", "_", "x">>, <<"x">>, <<" ", "a">>}

\* the patterns of --target: an identity, the globs 'train:*' and 'eval.*'
\* and the regex '^preprocess:.*' of the help text for the stage a, other
\* regexes, bare stages, a substring, a pattern that matches nothing
NamePatterns ==
    {a_x, <<"a", ":", "*">>, <<"a", ".", "*">>, <<"^", "a", ":", ".", "*">>,
     <<"^", "a", ":">>, <<"x", "$">>, <<"a", ".", "+">>, <<"a">>, <<"b">>,
     <<"x">>, <<"q">>}

NodeNames == {NodeAt(a_x), NodeAt(b_z), NodeAt(c_w), <<"a">>}

(***************************************************************************)
(* Dependency Graph Builder.                                               *)
(***************************************************************************)
\* the last rule of _find_matching_jobs alone: the partial matches by stage
\* or step name
_find_matching_jobs_by_parts(job_configs, dvc_node) ==
    LET cleaned == Strip(Strip(dvc_node, Whitespace), {"\"", "'"})
    IN  SelectSeq(job_configs,
                  LAMBDA job_key :
                      \/ cleaned = StageOf(job_key)
                      \/ cleaned = StepOf(job_key)
                      \/ EndsWith(cleaned, StepOf(job_key))
                      \/ IsSubstring(StepOf(job_key), cleaned))

\* the stage@step conversion returned without the test of the registry
_find_matching_jobs_unchecked(job_configs, dvc_node) ==
    LET cleaned == Strip(Strip(dvc_node, Whitespace), {"\"", "'"})
    IN  IF Contains(cleaned, "@")
        THEN <<Replace(cleaned, "@", ":")>>
        ELSE SelectSeq(job_configs, LAMBDA job_key : StageOf(job_key) = cleaned)

\* _find_matching_jobs: the jobs a node name of the graph dump stands for
_find_matching_jobs(job_configs, dvc_node) ==
    LET cleaned == Strip(Strip(dvc_node, Whitespace), {"\"", "'"})
        converted == Replace(cleaned, "@", ":")
        underscore_matches ==
            IF Contains(cleaned, "_") /\ ~Contains(cleaned, ":")
            THEN SelectSeq(job_configs,
                           LAMBDA job_key : Replace(job_key, ":", "_") = cleaned)
            ELSE <<>>
        stage_matches ==
            SelectSeq(job_configs, LAMBDA job_key : StageOf(job_key) = cleaned)
        partial_matches ==
            SelectSeq(job_configs,
                      LAMBDA job_key :
                          \/ cleaned = StageOf(job_key)
                          \/ cleaned = StepOf(job_key)
                          \/ cleaned = StageOf(job_key) \o <<"_">> \o StepOf(job_key)
                          \/ EndsWith(cleaned, StepOf(job_key))
                          \/ IsSubstring(StepOf(job_key), cleaned))
    IN  IF Contains(job_configs, cleaned) THEN <<cleaned>>
        ELSE IF Contains(cleaned, "@") /\ Contains(job_configs, converted)
             THEN <<converted>>
        ELSE IF /\ ~Contains(cleaned, "@")
                /\ ~Contains(cleaned, ":")
                /\ stage_matches # <<>>
             THEN stage_matches
        ELSE Unique(underscore_matches \o partial_matches)

\* self.dependencies.get(job_key, []): a dict is the sequence of its items
DepsOf(dependencies, job_key) ==
    IF \E i \in 1..Len(dependencies) : dependencies[i].job = job_key
    THEN dependencies[CHOOSE i \in 1..Len(dependencies) :
                          dependencies[i].job = job_key].deps
    ELSE <<>>

DepKeys(dependencies) == {dependencies[i].job : i \in 1..Len(dependencies)}

\* the edge recorded the other way round: dep_job depends on dependent_job
AddDependencyReversed(dependencies, dependent_job, dep_job) ==
    LET with_key == IF dep_job \in DepKeys(dependencies)
                    THEN dependencies
                    ELSE Append(dependencies, [job |-> dep_job, deps |-> <<>>])
    IN  [i \in 1..Len(with_key) |->
            IF with_key[i].job = dep_job /\ ~Contains(with_key[i].deps, dependent_job)
            THEN [with_key[i] EXCEPT !.deps = Append(@, dependent_job)]
            ELSE with_key[i]]

\* the body of the innermost loop of _parse_dot_output: record that
\* dependent_job depends on dep_job, once
AddDependency(dependencies, dependent_job, dep_job) ==
    LET with_key == IF dependent_job \in DepKeys(dependencies)
                    THEN dependencies
                    ELSE Append(dependencies, [job |-> dependent_job, deps |-> <<>>])
    IN  [i \in 1..Len(with_key) |->
            IF with_key[i].job = dependent_job /\ ~Contains(with_key[i].deps, dep_job)
            THEN [with_key[i] EXCEPT !.deps = Append(@, dep_job)]
            ELSE with_key[i]]

\* the loops with a break after the first dep_job
RECURSIVE AddFirstDependencyOnly(_, _, _, _, _)
AddFirstDependencyOnly(dependencies, dep_jobs, dependent_jobs, i, j) ==
    IF dep_jobs = <<>> \/ j > Len(dependent_jobs) THEN dependencies
    ELSE AddFirstDependencyOnly(
             AddDependency(dependencies, dependent_jobs[j], dep_jobs[1]),
             dep_jobs, dependent_jobs, i, j + 1)

\* for dep_job in dep_jobs: for dependent_job in dependent_jobs: ...
RECURSIVE AddProduct(_, _, _, _, _)
AddProduct(dependencies, dep_jobs, dependent_jobs, i, j) ==
    IF i > Len(dep_jobs) THEN dependencies
    ELSE IF j > Len(dependent_jobs)
         THEN AddProduct(dependencies, dep_jobs, dependent_jobs, i + 1, 1)
    ELSE AddProduct(AddDependency(dependencies, dependent_jobs[j], dep_jobs[i]),
                    dep_jobs, dependent_jobs, i, j + 1)

\* A line of the graph dump is an edge line "A" -> "B" (what the regular
\* expression of _parse_dot_output matches, with its two groups) or any other
\* line (a header, a node declaration, a closing brace).
EdgeLine(a, b) == [kind |-> "edge", dependency |-> a, dependent |-> b]

OtherLine == [kind |-> "other"]

\* _parse_dot_output: the dependency mapping after the lines from n on
RECURSIVE _parse_dot_output(_, _, _, _)
_parse_dot_output(job_configs, dependencies, dot_text, n) ==
    IF n > Len(dot_text) THEN dependencies
    ELSE IF dot_text[n].kind = "edge"
         THEN _parse_dot_output(
                  job_configs,
                  AddProduct(dependencies,
                             _find_matching_jobs(job_configs, dot_text[n].dependency),
                             _find_matching_jobs(job_configs, dot_text[n].dependent),
                             1, 1),
                  dot_text, n + 1)
    ELSE _parse_dot_output(job_configs, dependencies, dot_text, n + 1)

(***************************************************************************)
(* Staleness Resolver.                                                     *)
(*                                                                         *)
(* The status output is a sequence of lines.  A line is progress text (no  *)
(* JSON, no quoted name), a blank line, the opening brace of the JSON      *)
(* object, its closing brace, or one entry  "name": [...]  of the object   *)
(* (the nested values of an entry name files, never jobs).                 *)
(***************************************************************************)
TextLine == [kind |-> "text"]

BlankLine == [kind |-> "blank"]

OpenLine == [kind |-> "open"]

CloseLine == [kind |-> "close"]

EntryLine(name) == [kind |-> "entry", name |-> name]

\* not json_content.strip()
IsBlank(status_output) ==
    \A i \in 1..Len(status_output) : status_output[i].kind = "blank"

\* the index of the first line with line.strip().startswith("{"), 0 for -1
JsonStart(status_output) ==
    IF \E i \in 1..Len(status_output) : status_output[i].kind = "open"
    THEN CHOOSE i \in 1..Len(status_output) :
             /\ status_output[i].kind = "open"
             /\ \A j \in 1..(i - 1) : status_output[j].kind # "open"
    ELSE 0

\* json_text: the lines from json_start on, or the whole output
JsonText(status_output) ==
    IF JsonStart(status_output) > 0
    THEN SubSeq(status_output, JsonStart(status_output), Len(status_output))
    ELSE status_output

\* json.loads(json_text) succeeds: one object, its entries, its closing
\* brace, and nothing but white space around it
JsonLoads(json_text) ==
    LET body == SelectSeq(json_text, LAMBDA line : line.kind # "blank")
    IN  /\ Len(body) >= 2
        /\ body[1].kind = "open"
        /\ body[Len(body)].kind = "close"
        /\ \A i \in 2..(Len(body) - 1) : body[i].kind = "entry"

\* status_data.keys()
JsonKeys(json_text) ==
    {json_text[i].name : i \in {k \in 1..Len(json_text) : json_text[k].kind = "entry"}}

\* re.finditer of the two stage patterns: every quoted name followed by a colon
QuotedNames(status_output) ==
    {status_output[i].name :
        i \in {k \in 1..Len(status_output) : status_output[k].kind = "entry"}}

\* _dvc_stage_to_job_keys
_dvc_stage_to_job_keys(job_configs, dvc_stage) ==
    IF Contains(dvc_stage, "@")
    THEN IF Contains(job_configs, Replace(dvc_stage, "@", ":"))
         THEN <<Replace(dvc_stage, "@", ":")>>
         ELSE <<>>
    ELSE SelectSeq(job_configs,
                   LAMBDA job_key : \/ dvc_stage = StageOf(job_key)
                                    \/ dvc_stage = StepOf(job_key))

\* every job marked needs_run as soon as one stage is reported changed
MarkAllJobs(job_configs, changed_stages) ==
    [job_key \in Range(job_configs) |->
        IF changed_stages # {} THEN "needs_run" ELSE "cached"]

\* the verdict map that marks the jobs of the changed stages needs_run
MarkJobs(job_configs, changed_stages) ==
    LET changed_job_keys ==
            UNION {Range(_dvc_stage_to_job_keys(job_configs, dvc_stage)) :
                       dvc_stage \in changed_stages}
    IN  [job_key \in Range(job_configs) |->
            IF job_key \in changed_job_keys THEN "needs_run" ELSE "cached"]

\* every job reported cached, whatever the status asked for
AllCached(job_configs, status) == [job_key \in Range(job_configs) |-> "cached"]

\* {job_key: status for job_key in self.job_configs.keys()}
AllStatus(job_configs, status) == [job_key \in Range(job_configs) |-> status]

\* _fallback_parse_dvc_output
_fallback_parse_dvc_output(job_configs, status_output) ==
    MarkJobs(job_configs, QuotedNames(status_output))

\* _parse_dvc_status_json
_parse_dvc_status_json(job_configs, status_output) ==
    IF JsonLoads(JsonText(status_output))
    THEN MarkJobs(job_configs, JsonKeys(JsonText(status_output)))
    ELSE _fallback_parse_dvc_output(job_configs, status_output)

\* The oracle's answer to the status query: the command is missing, the
\* user interrupts it, or it exits with returncode leaving stdout in the
\* temporary file.
StatusResult(outcome, returncode, stdout) ==
    [outcome |-> outcome, returncode |-> returncode, stdout |-> stdout]

\* no status query made yet
NoStatusResult == StatusResult("none", 0, <<>>)

\* what a call returns: its value, or the exception it raises
Returned(value) == [exc |-> "none", value |-> value]

Raise(exc) == [exc |-> exc, value |-> <<>>]

\* check_job_status: the verdict map, or the exception it raises
check_job_status(job_configs, result) ==
    IF result.outcome = "not_found" THEN Raise("RuntimeError")
    ELSE IF result.outcome = "interrupt" THEN Raise("KeyboardInterrupt")
    ELSE IF result.returncode # 0
         THEN Returned(AllStatus(job_configs, "needs_run"))
    ELSE IF IsBlank(result.stdout)
         THEN Returned(AllStatus(job_configs, "cached"))
    ELSE Returned(_parse_dvc_status_json(job_configs, result.stdout))

RECURSIVE SeqsUpTo(_, _)
SeqsUpTo(S, n) ==
    IF n = 0 THEN {<<>>}
    ELSE LET shorter == SeqsUpTo(S, n - 1)
         IN  shorter \cup {Append(s, x) : s \in {t \in shorter : Len(t) = n - 1}, x \in S}

\* the status outputs of at most MaxStatusLines lines that name the nodes of names
StatusLines(names) ==
    {TextLine, BlankLine, OpenLine, CloseLine} \cup {EntryLine(n) : n \in names}

StatusResults(names) ==
    {StatusResult("not_found", 0, <<>>), StatusResult("interrupt", 0, <<>>)}
        \cup {StatusResult("exit", 1, out) : out \in {<<>>, <<OpenLine, CloseLine>>}}
        \cup {StatusResult("exit", 0, out) :
                  out \in SeqsUpTo(StatusLines(names), MaxStatusLines)}

(***************************************************************************)
(* Target Closure Resolver.                                                *)
(***************************************************************************)
\* fnmatch.fnmatch(name, pat) for patterns of literal characters, * and ?
\* (the part of name from i on against the part of pat from j on)
RECURSIVE FnMatchFrom(_, _, _, _)
FnMatchFrom(name, pat, i, j) ==
    IF j > Len(pat) THEN i > Len(name)
    ELSE IF pat[j] = "*"
         THEN \E k \in i..(Len(name) + 1) : FnMatchFrom(name, pat, k, j + 1)
    ELSE IF i > Len(name) THEN FALSE
    ELSE IF pat[j] = "?" \/ pat[j] = name[i]
         THEN FnMatchFrom(name, pat, i + 1, j + 1)
    ELSE FALSE

FnMatch(name, pat) == FnMatchFrom(name, pat, 1, 1)

\* re.compile(pattern).search(text) for patterns of literal characters, the
\* dot, ^, $ and the postfix + (the part of text from i on against the part
\* of pattern from j on)
RECURSIVE ReMatchHere(_, _, _, _)
ReMatchHere(text, pattern, i, j) ==
    IF j > Len(pattern) THEN TRUE
    ELSE IF pattern[j] = "^" THEN i = 1 /\ ReMatchHere(text, pattern, i, j + 1)
    ELSE IF pattern[j] = "$"
         THEN i > Len(text) /\ ReMatchHere(text, pattern, i, j + 1)
    ELSE IF j < Len(pattern) /\ pattern[j + 1] = "+"
         THEN \E k \in (i + 1)..(Len(text) + 1) :
                  /\ \A m \in i..(k - 1) : pattern[j] = "." \/ pattern[j] = text[m]
                  /\ ReMatchHere(text, pattern, k, j + 2)
    ELSE IF i > Len(text) THEN FALSE
    ELSE IF pattern[j] = "." \/ pattern[j] = text[i]
         THEN ReMatchHere(text, pattern, i + 1, j + 1)
    ELSE FALSE

ReSearch(text, pattern) ==
    \E i \in 1..(Len(text) + 1) : ReMatchHere(text, pattern, i, 1)

\* matching_jobs.sort(): the strings of a set in lexical order
CharOrder == <<":", "_", "a", "b", "c", "w", "x", "y", "z">>

CharRank(c) == CHOOSE i \in 1..Len(CharOrder) : CharOrder[i] = c

RECURSIVE StrLess(_, _)
StrLess(s, t) ==
    IF t = <<>> THEN FALSE
    ELSE IF s = <<>> THEN TRUE
    ELSE IF s[1] = t[1] THEN StrLess(Tail(s), Tail(t))
    ELSE CharRank(s[1]) < CharRank(t[1])

RECURSIVE Sorted(_)
Sorted(S) ==
    IF S = {} THEN <<>>
    ELSE LET least == CHOOSE x \in S : \A y \in S \ {x} : StrLess(x, y)
         IN  <<least>> \o Sorted(S \ {least})

\* _find_target_jobs_by_pattern with has_regex tested before has_wildcards
\* (the star, which ReSearch does not read, is dropped from the regex: after
\* a dot at the end of a pattern it matches what the dot matches)
_find_target_jobs_regex_first(job_configs, pattern) ==
    LET has_wildcards == \E c \in {"*", "?", "[", "]"} : Contains(pattern, c)
        has_regex == \E c \in {"^", "$", "(", ")", "|", "+", "{", "}"} :
                         Contains(pattern, c)
        stage_jobs == {job_key \in Range(job_configs) : StageOf(job_key) = pattern}
    IN  IF Contains(job_configs, pattern) THEN <<pattern>>
        ELSE IF has_regex
             THEN Sorted({job_key \in Range(job_configs) :
                              ReSearch(job_key, SelectSeq(pattern, LAMBDA c : c # "*"))})
        ELSE IF has_wildcards
             THEN Sorted({job_key \in Range(job_configs) : FnMatch(job_key, pattern)})
        ELSE IF stage_jobs # {} THEN Sorted(stage_jobs)
        ELSE Sorted({job_key \in Range(job_configs) : IsSubstring(pattern, job_key)})

\* _find_target_jobs_by_pattern: the sorted list of matching jobs
_find_target_jobs_by_pattern(job_configs, pattern) ==
    LET has_wildcards == \E c \in {"*", "?", "[", "]"} : Contains(pattern, c)
        has_regex == \E c \in {"^", "$", "(", ")", "|", "+", "{", "}"} :
                         Contains(pattern, c)
        stage_jobs == {job_key \in Range(job_configs) : StageOf(job_key) = pattern}
    IN  IF Contains(job_configs, pattern) THEN <<pattern>>
        ELSE IF has_wildcards
             THEN Sorted({job_key \in Range(job_configs) : FnMatch(job_key, pattern)})
        ELSE IF has_regex
             THEN Sorted({job_key \in Range(job_configs) : ReSearch(job_key, pattern)})
        ELSE IF stage_jobs # {} THEN Sorted(stage_jobs)
        ELSE Sorted({job_key \in Range(job_configs) : IsSubstring(pattern, job_key)})

\* add_dependencies without the recursive call: job_key and its direct
\* dependencies only
add_dependencies_one_level(job_configs, dependencies, target_jobs, job_key) ==
    target_jobs \cup {job_key}
        \cup {dep \in Range(DepsOf(dependencies, job_key)) : Contains(job_configs, dep)}

\* add_dependencies of get_target_jobs: target_jobs after the call for
\* job_key (AddDependenciesOf: after the calls for deps[n], deps[n+1], ...)
RECURSIVE add_dependencies(_, _, _, _)
RECURSIVE AddDependenciesOf(_, _, _, _, _)
add_dependencies(job_configs, dependencies, target_jobs, job_key) ==
    IF job_key \in target_jobs THEN target_jobs
    ELSE AddDependenciesOf(job_configs, dependencies, target_jobs \cup {job_key},
                           DepsOf(dependencies, job_key), 1)

AddDependenciesOf(job_configs, dependencies, target_jobs, deps, n) ==
    IF n > Len(deps) THEN target_jobs
    ELSE AddDependenciesOf(
             job_configs, dependencies,
             IF Contains(job_configs, deps[n])
             THEN add_dependencies(job_configs, dependencies, target_jobs, deps[n])
             ELSE target_jobs,
             deps, n + 1)

\* for job_key in matching_jobs: add_dependencies(job_key)
RECURSIVE AddAllDependencies(_, _, _, _, _)
AddAllDependencies(job_configs, dependencies, target_jobs, matching_jobs, n) ==
    IF n > Len(matching_jobs) THEN target_jobs
    ELSE AddAllDependencies(
             job_configs, dependencies,
             add_dependencies(job_configs, dependencies, target_jobs, matching_jobs[n]),
             matching_jobs, n + 1)

\* get_target_jobs that returns the empty set when nothing matches
get_target_jobs_or_nothing(job_configs, dependencies, target_pattern) ==
    Returned(AddAllDependencies(
                 job_configs, dependencies, {},
                 _find_target_jobs_by_pattern(job_configs, target_pattern), 1))

\* get_target_jobs: the matching jobs and all their dependencies, or the
\* ValueError whose message names the pattern
get_target_jobs(job_configs, dependencies, target_pattern) ==
    LET found == _find_target_jobs_by_pattern(job_configs, target_pattern)
    IN  IF found = <<>> THEN [exc |-> "ValueError", value |-> target_pattern]
        ELSE Returned(AddAllDependencies(job_configs, dependencies, {}, found, 1))

(***************************************************************************)
(* RunSet derivation.                                                      *)
(***************************************************************************)
\* the base set of filter_jobs_by_status: needs_run and in the target set
NeedsRunInTarget(job_status, target_jobs) ==
    {job_key \in DOMAIN job_status :
        job_status[job_key] = "needs_run" /\ job_key \in target_jobs}

\* add_dependents without the restriction to the target set
IsNewDependentAnywhere(changed_job, job_key, deps, jobs_with_deps, target_jobs) ==
    /\ Contains(deps, changed_job)
    /\ job_key \notin jobs_with_deps

\* the condition under which add_dependents adds job_key, an item of the
\* dependency mapping with the list deps
IsNewDependent(changed_job, job_key, deps, jobs_with_deps, target_jobs) ==
    /\ Contains(deps, changed_job)
    /\ job_key \notin jobs_with_deps
    /\ job_key \in target_jobs

\* add_dependents without the recursive call: direct dependents only
RECURSIVE add_dependents_direct(_, _, _, _, _)
add_dependents_direct(dependencies, target_jobs, jobs_with_deps, changed_job, n) ==
    IF n > Len(dependencies) THEN jobs_with_deps
    ELSE IF IsNewDependent(changed_job, dependencies[n].job, dependencies[n].deps,
                           jobs_with_deps, target_jobs)
         THEN add_dependents_direct(dependencies, target_jobs,
                                    jobs_with_deps \cup {dependencies[n].job},
                                    changed_job, n + 1)
    ELSE add_dependents_direct(dependencies, target_jobs, jobs_with_deps,
                               changed_job, n + 1)

\* add_dependents: jobs_with_deps after the loop over the items of the
\* dependency mapping from the n-th on, for changed_job
RECURSIVE add_dependents(_, _, _, _, _)
add_dependents(dependencies, target_jobs, jobs_with_deps, changed_job, n) ==
    IF n > Len(dependencies) THEN jobs_with_deps
    ELSE IF IsNewDependent(changed_job, dependencies[n].job, dependencies[n].deps,
                           jobs_with_deps, target_jobs)
         THEN add_dependents(
                  dependencies, target_jobs,
                  add_dependents(dependencies, target_jobs,
                                 jobs_with_deps \cup {dependencies[n].job},
                                 dependencies[n].job, 1),
                  changed_job, n + 1)
    ELSE add_dependents(dependencies, target_jobs, jobs_with_deps, changed_job, n + 1)

\* for job in list(jobs_to_run): add_dependents(job), the set taken in the
\* order of the list jobs
RECURSIVE Cascade(_, _, _, _, _)
Cascade(dependencies, target_jobs, jobs_with_deps, jobs, n) ==
    IF n > Len(jobs) THEN jobs_with_deps
    ELSE Cascade(dependencies, target_jobs,
                 add_dependents(dependencies, target_jobs, jobs_with_deps, jobs[n], 1),
                 jobs, n + 1)

\* the target set of filter_jobs_by_status
TargetJobs(job_configs, dependencies, target_pattern) ==
    IF target_pattern # <<>>
    THEN get_target_jobs(job_configs, dependencies, target_pattern)
    ELSE Returned(Range(job_configs))

\* filter_jobs_by_status without the test of include_cached
filter_jobs_by_verdict_only(job_configs, dependencies, status, include_cached, target_pattern, order) ==
    LET target == TargetJobs(job_configs, dependencies, target_pattern)
    IN  IF status.exc # "none" THEN status
        ELSE IF target.exc # "none" THEN target
        ELSE Returned(Cascade(dependencies, target.value,
                              NeedsRunInTarget(status.value, target.value),
                              order, 1))

\* filter_jobs_by_status, given what check_job_status returned and the
\* order in which the base set is iterated
filter_jobs_by_status(job_configs, dependencies, status, include_cached, target_pattern, order) ==
    LET target == TargetJobs(job_configs, dependencies, target_pattern)
    IN  IF status.exc # "none" THEN status
        ELSE IF target.exc # "none" THEN target
        ELSE IF include_cached THEN target
        ELSE Returned(Cascade(dependencies, target.value,
                              NeedsRunInTarget(status.value, target.value),
                              order, 1))

(***************************************************************************)
(* Batch Scheduler.                                                        *)
(***************************************************************************)
\* in-degrees that count the dependencies outside the job set instead
InDegreeOutside(dependencies, all_jobs) ==
    [job \in all_jobs |->
        Len(SelectSeq(DepsOf(dependencies, job), LAMBDA dep : dep \notin all_jobs))]

\* the in-degrees get_execution_order starts from
InDegree(dependencies, all_jobs) ==
    [job \in all_jobs |->
        Len(SelectSeq(DepsOf(dependencies, job), LAMBDA dep : dep \in all_jobs))]

\* the loop over the items of the dependency mapping for one completed job:
\* st is the pair of in_degree and queue
RECURSIVE UpdateDependents(_, _, _, _, _)
UpdateDependents(dependencies, all_jobs, st, completed_job, n) ==
    IF n > Len(dependencies) THEN st
    ELSE LET job == dependencies[n].job
         IN  IF job \in all_jobs /\ Contains(dependencies[n].deps, completed_job)
             THEN UpdateDependents(
                      dependencies, all_jobs,
                      [in_degree |-> [st.in_degree EXCEPT ![job] = @ - 1],
                       queue |-> IF st.in_degree[job] - 1 = 0
                                 THEN Append(st.queue, job)
                                 ELSE st.queue],
                      completed_job, n + 1)
             ELSE UpdateDependents(dependencies, all_jobs, st, completed_job, n + 1)

\* for completed_job in current_batch: ...
RECURSIVE CompleteBatch(_, _, _, _, _)
CompleteBatch(dependencies, all_jobs, st, current_batch, b) ==
    IF b > Len(current_batch) THEN st
    ELSE CompleteBatch(dependencies, all_jobs,
                       UpdateDependents(dependencies, all_jobs, st, current_batch[b], 1),
                       current_batch, b + 1)

\* the loop that emits one job of the queue per batch
RECURSIVE OrderLoopOneByOne(_, _, _, _)
OrderLoopOneByOne(dependencies, all_jobs, st, execution_order) ==
    IF st.queue = <<>> THEN execution_order
    ELSE LET done == CompleteBatch(dependencies, all_jobs,
                                   [in_degree |-> st.in_degree, queue |-> <<>>],
                                   <<Head(st.queue)>>, 1)
         IN  OrderLoopOneByOne(dependencies, all_jobs,
                               [in_degree |-> done.in_degree,
                                queue |-> Tail(st.queue) \o done.queue],
                               Append(execution_order, <<Head(st.queue)>>))

\* while queue: ...
RECURSIVE OrderLoop(_, _, _, _)
OrderLoop(dependencies, all_jobs, st, execution_order) ==
    IF st.queue = <<>> THEN execution_order
    ELSE OrderLoop(dependencies, all_jobs,
                   CompleteBatch(dependencies, all_jobs,
                                 [in_degree |-> st.in_degree, queue |-> <<>>],
                                 st.queue, 1),
                   Append(execution_order, st.queue))

\* get_execution_order(jobs_to_include), the set iterated in the order of
\* the list order
get_execution_order(dependencies, order) ==
    LET all_jobs == Range(order)
        in_degree == InDegree(dependencies, all_jobs)
    IN  OrderLoop(dependencies, all_jobs,
                  [in_degree |-> in_degree,
                   queue |-> SelectSeq(order, LAMBDA job : in_degree[job] = 0)],
                  <<>>)

(***************************************************************************)
(* The oracle's graph query.                                               *)
(***************************************************************************)
DagResult(outcome, returncode, stdout) ==
    [outcome |-> outcome, returncode |-> returncode, stdout |-> stdout]

NoDagResult == DagResult("none", 0, <<>>)

\* load_dependencies_from_dvc with a test of the output alone
load_dependencies_if_output(job_configs, dependencies, result) ==
    IF result.outcome = "not_found" THEN Raise("RuntimeError")
    ELSE IF result.stdout # <<>>
         THEN Returned(_parse_dot_output(job_configs, dependencies, result.stdout, 1))
    ELSE Raise("RuntimeError")

\* load_dependencies_from_dvc: the dependency mapping, or RuntimeError
load_dependencies_from_dvc(job_configs, dependencies, result) ==
    IF result.outcome = "not_found" THEN Raise("RuntimeError")
    ELSE IF result.returncode = 0 /\ result.stdout # <<>>
         THEN Returned(_parse_dot_output(job_configs, dependencies, result.stdout, 1))
    ELSE Raise("RuntimeError")

\* the lines of a graph dump: the oracle draws no edge from a node to itself
DotLines ==
    {OtherLine} \cup {EdgeLine(e[1], e[2]) :
                          e \in {p \in NodeNames \X NodeNames : p[1] # p[2]}}

\* the answers of the oracle with a graph dump of at most n lines
DagResults(n) ==
    {DagResult("not_found", 0, <<>>), DagResult("exit", 1, <<>>),
     DagResult("exit", 1, <<EdgeLine(NodeAt(a_x), NodeAt(b_z))>>)}
        \cup {DagResult("exit", 0, out) : out \in SeqsUpTo(DotLines, n)}

PlanDagResults == DagResults(MaxDotLines)

RunDagResults == DagResults(MaxRunDotLines)

\* what check_job_status can return for a registry, the status naming the
\* nodes of two jobs
StatusOutcomes ==
    [r \in Registries |->
        {check_job_status(r, result) :
             result \in StatusResults({NodeAt(a_x), NodeAt(b_z)})}]

\* the target patterns of the model; the empty string stands for no target
NoTarget == <<>>

TargetPatterns == {NoTarget, <<"b">>, <<"a", ":", "*">>, <<"q">>}

(***************************************************************************)
(* Submission Driver: the pure parts of submit_job and run_pipeline.       *)
(***************************************************************************)
\* a job id: the digits the scheduler printed (prefix ""), or a placeholder
\* of the driver, f"fake_{n}", f"unknown_{n}", f"failed_{n}"
JobId(prefix, n) == [prefix |-> prefix, n |-> n]

\* the test made for the other placeholder
IsUnknownId(job_id) == job_id.prefix = "unknown_"

\* job_id.startswith("failed_")
IsFailedId(job_id) == job_id.prefix = "failed_"

\* dep in self.submitted_jobs
IsSubmitted(submitted_jobs, job_key) ==
    \E i \in 1..Len(submitted_jobs) : submitted_jobs[i].job = job_key

\* self.submitted_jobs[dep]
SubmittedId(submitted_jobs, job_key) ==
    submitted_jobs[CHOOSE i \in 1..Len(submitted_jobs) :
                       submitted_jobs[i].job = job_key].id

\* self.submitted_jobs = {job_key: job_id}
RecordOnlyLast(submitted_jobs, job_key, job_id) == <<[job |-> job_key, id |-> job_id]>>

\* self.submitted_jobs[job_key] = job_id
RecordSubmitted(submitted_jobs, job_key, job_id) ==
    IF IsSubmitted(submitted_jobs, job_key)
    THEN [i \in 1..Len(submitted_jobs) |->
             IF submitted_jobs[i].job = job_key
             THEN [job |-> job_key, id |-> job_id]
             ELSE submitted_jobs[i]]
    ELSE Append(submitted_jobs, [job |-> job_key, id |-> job_id])

\* active_deps taken to be every job submitted so far
ActiveDepsOfAnyJob(deps, jobs_to_run, submitted_jobs) ==
    [i \in 1..Len(submitted_jobs) |-> submitted_jobs[i].job]

\* active_deps of submit_job
ActiveDeps(deps, jobs_to_run, submitted_jobs) ==
    SelectSeq(deps, LAMBDA dep : dep \in jobs_to_run /\ IsSubmitted(submitted_jobs, dep))

\* dep_job_ids of submit_job: the ids joined into the afterok clause (no
\* --dependency argument when the list is empty)
DepJobIds(dependencies, jobs_to_run, submitted_jobs, job_key) ==
    LET active_deps == ActiveDeps(DepsOf(dependencies, job_key), jobs_to_run,
                                  submitted_jobs)
    IN  [i \in 1..Len(active_deps) |-> SubmittedId(submitted_jobs, active_deps[i])]

\* what the external submission command does: it prints a job id, prints
\* no id, exits non-zero, cannot be started, or is interrupted by the user
CommandResults == {"id", "no_id", "CalledProcessError", "OSError", "KeyboardInterrupt"}

\* str.lower() on the letters of the model
Lower(s) ==
    [i \in 1..Len(s) |->
        CASE s[i] = "Y" -> "y"
          [] s[i] = "E" -> "e"
          [] s[i] = "S" -> "s"
          [] s[i] = "N" -> "n"
          [] OTHER -> s[i]]

\* any answer but the empty one counts as a yes
IsNotEmpty(response) == Strip(response, Whitespace) # <<>>

\* response = input(...).strip().lower(); response in ["y", "yes"]
IsYes(response) ==
    Lower(Strip(response, Whitespace)) \in {<<"y">>, <<"y", "e", "s">>}

\* what the user types at the confirmation prompt
Responses == {<<"y">>, <<"Y", "E", "S", " ">>, <<"n">>, <<>>}

\* what the user types at a prompt after a failure
FailureResponses == {<<"y">>, <<"n">>}

\* what input() does: it returns the line typed, or the user interrupts it
Typed(response) == [raised |-> "none", response |-> response]

Interrupted == [raised |-> "KeyboardInterrupt", response |-> <<>>]

Inputs == {Typed(response) : response \in Responses} \cup {Interrupted}

FailureInputs == {Typed(response) : response \in FailureResponses} \cup {Interrupted}

\* the program's dealings with the outside during the submission phase, in
\* order: the submission commands it ran and the prompts it showed
CommandEvent(job_key, run_group_id, afterok, outcome) ==
    [ev |-> "command", job |-> job_key, run_group |-> run_group_id,
     afterok |-> afterok, outcome |-> outcome]

\* a run-group label: the cleaned name the user gave, or the time of its
\* generation and the short commit hash
RunGroup(kind, text, at) == [kind |-> kind, text |-> text, at |-> at]

\* the object has no attribute _run_group_id yet
NoRunGroup == RunGroup("unset", <<>>, 0)

\* what --run-group can be: not given (None), or a name
UserRunGroups == {<<>>, <<"g", " ">>}

\* what git rev-parse --short=6 HEAD gives: a hash, or "unknown" on an error
CommitOutcomes == {<<"c">>, <<"u", "n", "k", "n", "o", "w", "n">>}

\* re.sub(r'[^a-zA-Z0-9_.-]', '_', user_group) on the characters of the model
CleanGroup(user_group) ==
    [i \in 1..Len(user_group) |->
        IF user_group[i] \in {"g", "c", "_", ".", "-"} THEN user_group[i] ELSE "_"]

\* generate_run_group_id without the test of the attribute: a label is
\* made at every call
generate_run_group_id_anew(_run_group_id, user_group, now, commit_short) ==
    IF user_group # <<>>
    THEN RunGroup("user", CleanGroup(user_group), 0)
    ELSE RunGroup("generated", commit_short, now)

\* generate_run_group_id(user_group) called at time now: the attribute
\* _run_group_id after the call, which is also the value returned
generate_run_group_id(_run_group_id, user_group, now, commit_short) ==
    IF _run_group_id # NoRunGroup
    THEN _run_group_id
    ELSE IF user_group # <<>>
         THEN RunGroup("user", CleanGroup(user_group), 0)
         ELSE RunGroup("generated", commit_short, now)

InputEvent(prompt, typed) ==
    [ev |-> "input", prompt |-> prompt, raised |-> typed.raised,
     response |-> typed.response]

\* the threshold taken as "at least half"
AtLeastHalfFailed(batch_failures, batch) == batch_failures >= Len(batch) \div 2

\* batch_failures > len(batch) // 2
TooManyFailures(batch_failures, batch) == batch_failures > Len(batch) \div 2

\* where the loops of run_pipeline stand
LoopState(at, batch_index, job_index, batch_failures) ==
    [pc |-> at, batch_index |-> batch_index, job_index |-> job_index,
     batch_failures |-> batch_failures]

\* the outer loop with the confirmation asked again after the last batch
NextBatchReconfirm(execution_order, batch_index, batch_failures) ==
    IF batch_index < Len(execution_order)
    THEN LoopState("run_submit", batch_index + 1, 1, 0)
    ELSE LoopState("run_confirm", batch_index, 1, batch_failures)

\* the outer loop after a batch (or the last statements after the loop)
NextBatch(execution_order, batch_index, batch_failures) ==
    IF batch_index < Len(execution_order)
    THEN LoopState("run_submit", batch_index + 1, 1, 0)
    ELSE LoopState("returned", batch_index, 1, batch_failures)

\* the inner loop after a job: the next job of the batch, or, at the end of
\* the batch or after a break (continue_batch false), the failure threshold
NextJob(execution_order, batch_index, job_index, batch_failures, continue_batch) ==
    IF continue_batch /\ job_index < Len(execution_order[batch_index])
    THEN LoopState("run_submit", batch_index, job_index + 1, batch_failures)
    ELSE IF TooManyFailures(batch_failures, execution_order[batch_index])
         THEN LoopState("run_batch_prompt", batch_index, job_index, batch_failures)
    ELSE NextBatch(execution_order, batch_index, batch_failures)

\* what prompt_for_secrets_password and load_secrets leave in secrets_env:
\* no password (an empty dict), the decrypted tokens, or an exception
SecretsOutcomes ==
    {Returned({}), Returned({"GITHUB_TOKEN"}), [exc |-> "ValueError", value |-> {}]}

(***************************************************************************)
(* safe_dvc_merger.py: the lock merger.  A lock is a dict that has the key *)
(* "stages" or not; the stages dict is the sequence of its items in        *)
(* insertion order; the data of a stage is its command and its outs.       *)
(***************************************************************************)
Lock(has_stages, stages) == [has_stages |-> has_stages, stages |-> stages]

StageData(cmd, md5) == [cmd |-> cmd, outs |-> <<[path |-> "p", md5 |-> md5]>>]

\* the stage data of the model: two that differ in the command only and
\* one with another hash of the output
StageDatas == {StageData("c1", "m1"), StageData("c2", "m1"), StageData("c1", "m2")}

\* what load_yaml_file can return: {} (an empty or unreadable file), or a
\* lock with the stages s, t or both
Locks ==
    {Lock(FALSE, <<>>), Lock(TRUE, <<>>)}
        \cup {Lock(TRUE, <<[name |-> n, data |-> d]>>) : n \in {"s", "t"}, d \in StageDatas}
        \cup {Lock(TRUE, <<[name |-> "s", data |-> d], [name |-> "t", data |-> e]>>) :
                  d \in StageDatas, e \in StageDatas}

\* the mapping that keeps the paths and leaves out the hashes
_get_output_paths(stage_data) ==
    LET outs == stage_data.outs
    IN  [path \in {outs[i].path : i \in 1..Len(outs)} |-> ""]

\* _get_output_hashes: the mapping from output path to md5 (the last entry
\* of a path wins)
_get_output_hashes(stage_data) ==
    LET outs == stage_data.outs
    IN  [path \in {outs[i].path : i \in 1..Len(outs)} |->
            outs[CHOOSE i \in 1..Len(outs) :
                     /\ outs[i].path = path
                     /\ \A j \in (i + 1)..Len(outs) : outs[j].path # path].md5]

\* stats and total_stats before anything is counted
NoStats == [added |-> 0, updated |-> 0, skipped |-> 0]

\* for stage_name, stage_data in branch_stages.items(): ... from item n on;
\* stages is merged["stages"]
RECURSIVE MergeStages(_, _, _, _)
MergeStages(stages, branch_stages, stats, n) ==
    IF n > Len(branch_stages) THEN [stages |-> stages, stats |-> stats]
    ELSE LET stage_name == branch_stages[n].name
             stage_data == branch_stages[n].data
             at == {i \in 1..Len(stages) : stages[i].name = stage_name}
         IN  IF at = {}
             THEN MergeStages(Append(stages, [name |-> stage_name, data |-> stage_data]),
                              branch_stages, [stats EXCEPT !.added = @ + 1], n + 1)
             ELSE IF _get_output_hashes(stages[CHOOSE i \in at : TRUE].data)
                         # _get_output_hashes(stage_data)
                  THEN MergeStages([i \in 1..Len(stages) |->
                                       IF i \in at
                                       THEN [name |-> stage_name, data |-> stage_data]
                                       ELSE stages[i]],
                                   branch_stages, [stats EXCEPT !.updated = @ + 1], n + 1)
             ELSE MergeStages(stages, branch_stages,
                              [stats EXCEPT !.skipped = @ + 1], n + 1)

\* merge_locks(base_lock, branch_lock): the pair returned (merged, stats),
\* and base_lock, the object passed as base as it is after the call.
\* base_lock.copy() is a shallow copy: merged["stages"] is the very dict
\* base_lock["stages"] when the base has that key, and a new dict otherwise.
merge_locks(base_lock, branch_lock) ==
    LET done == MergeStages(IF base_lock.has_stages THEN base_lock.stages ELSE <<>>,
                            IF branch_lock.has_stages THEN branch_lock.stages ELSE <<>>,
                            NoStats, 1)
    IN  [merged |-> Lock(TRUE, done.stages), stats |-> done.stats,
         base_lock |-> IF base_lock.has_stages
                       THEN Lock(TRUE, done.stages)
                       ELSE base_lock]

\* no call of merge_locks made yet
NoMergeCall ==
    [made |-> FALSE, base_lock |-> Lock(FALSE, <<>>), branch_lock |-> Lock(FALSE, <<>>),
     base_lock_after |-> Lock(FALSE, <<>>), stats |-> NoStats]

\* the remote branches get_experiment_branches finds, sorted
BranchNames == <<"unknown_1", "unknown_2", "unknown_3", "unknown_4">>

\* what a checkout leaves checked out
Checkout(place, branch) == <<place, branch>>

\* self.original_branch and the default work_branch
original_branch == Checkout("local", "main")

work_branch == Checkout("local", "merged-dvc-lock")

(***************************************************************************)
(* State.                                                                  *)
(***************************************************************************)
VARIABLES
    job_configs,      \* self.job_configs: the keys in insertion order
    dependencies,     \* self.dependencies: items (job, deps) in insertion order
    submitted_jobs,   \* self.submitted_jobs: items (job, id) in insertion order
    dry_run,          \* self.dry_run
    pc,               \* the position of the caller
    target_pattern,   \* the target pattern of the call
    include_cached,   \* the include_cached argument of filter_jobs_by_status
    job_status,       \* what check_job_status returned
    jobs_to_run,      \* what filter_jobs_by_status returned
    execution_order,  \* what get_execution_order returned
    secrets_env,      \* run_pipeline: the keys of secrets_env
    batch_index,      \* run_pipeline: i, the number of the batch
    job_index,        \* run_pipeline: the position of job_key in the batch
    batch_failures,   \* run_pipeline: batch_failures
    failed_count,     \* run_pipeline: failed_count
    submitted_count,  \* run_pipeline: submitted_count
    io,               \* the commands run and the prompts shown, in order
    success,          \* main: what run_pipeline returned
    status_result,    \* check_job_status: the oracle's answer to the status query
    dag_result,       \* load_dependencies_from_dvc: result, the oracle's answer to
                      \* the graph query, while the call is active
    dvc_node,         \* the name given to _find_matching_jobs or
                      \* _dvc_stage_to_job_keys
    matching_jobs,    \* the list a name-matching method returned
    user_run_group,   \* self.user_run_group: the run_group argument (<<>>: None)
    _run_group_id,    \* self._run_group_id (NoRunGroup: no such attribute)
    merge_dry_run,    \* merge_from_branches: the dry_run argument
    branches,         \* merge_from_branches: the branches argument
    branch_index,     \* merge_from_branches: i, the number of the branch
    merged_lock,      \* merge_from_branches: merged_lock
    total_stats,      \* merge_from_branches: total_stats
    branch_errors,    \* the branches whose processing raised an error
    merge_call,       \* the last call of merge_locks: the base and the branch
                      \* passed, the base object after the call, the stats
    checked_out,      \* the repository: what is checked out
    work_branch_created, \* the repository: the work branch exists
    lock_written,     \* the working tree: write_yaml_file wrote dvc.lock
    committed         \* the repository: index.commit made a commit

mergeVars == <<merge_dry_run, branches, branch_index, merged_lock, total_stats,
               branch_errors, merge_call, checked_out, work_branch_created,
               lock_written, committed>>

nameVars == <<dvc_node, matching_jobs, user_run_group, _run_group_id, mergeVars>>

runVars == <<secrets_env, batch_index, job_index, batch_failures, failed_count,
             submitted_count, io, success>>

vars == <<job_configs, dependencies, submitted_jobs, dry_run, pc, target_pattern,
          include_cached, job_status, jobs_to_run, execution_order, runVars,
          status_result, dag_result, nameVars>>

\* PipelineSubmitter.__init__ (and the locals of run_pipeline before the call)
Init ==
    /\ job_configs = <<>>
    /\ dependencies = <<>>
    /\ submitted_jobs = <<>>
    /\ dry_run \in BOOLEAN
    /\ pc = "new"
    /\ target_pattern = NoTarget
    /\ include_cached = FALSE
    /\ job_status = <<>>
    /\ jobs_to_run = {}
    /\ execution_order = <<>>
    /\ secrets_env = {}
    /\ batch_index = 0
    /\ job_index = 0
    /\ batch_failures = 0
    /\ failed_count = 0
    /\ submitted_count = 0
    /\ io = <<>>
    /\ success = "none"
    /\ status_result = NoStatusResult
    /\ dag_result = NoDagResult
    /\ dvc_node = <<>>
    /\ matching_jobs = <<>>
    /\ user_run_group \in UserRunGroups
    /\ _run_group_id = NoRunGroup
    /\ merge_dry_run = FALSE
    /\ branches = <<>>
    /\ branch_index = 0
    /\ merged_lock = Lock(FALSE, <<>>)
    /\ total_stats = NoStats
    /\ branch_errors = {}
    /\ merge_call = NoMergeCall
    /\ checked_out = original_branch
    /\ work_branch_created = FALSE
    /\ lock_written = FALSE
    /\ committed = FALSE

(***************************************************************************)
(* The planning methods called one after the other, as the status check of *)
(* main does: load_job_configs, load_dependencies_from_dvc,                *)
(* filter_jobs_by_status, get_execution_order.                             *)
(***************************************************************************)
CallLoadJobConfigs ==
    /\ pc = "new"
    /\ \E registry \in Registries : job_configs' = registry
    /\ pc' = "configs_loaded"
    /\ UNCHANGED <<dependencies, submitted_jobs, dry_run, target_pattern,
                   include_cached, job_status, jobs_to_run, execution_order, runVars,
                   status_result, dag_result, nameVars>>

CallLoadDependencies ==
    /\ pc = "configs_loaded"
    /\ \E result \in PlanDagResults :
           LET loaded == load_dependencies_from_dvc(job_configs, dependencies, result)
           IN  IF loaded.exc = "none"
               THEN dependencies' = loaded.value /\ pc' = "dependencies_loaded"
               ELSE dependencies' = dependencies /\ pc' = "raised"
    /\ UNCHANGED <<job_configs, submitted_jobs, dry_run, target_pattern,
                   include_cached, job_status, jobs_to_run, execution_order, runVars,
                   status_result, dag_result, nameVars>>

CallFilterJobsByStatus ==
    /\ pc = "dependencies_loaded"
    /\ \E status \in StatusOutcomes[job_configs], cached \in BOOLEAN,
          pattern \in TargetPatterns :
           LET target == TargetJobs(job_configs, dependencies, pattern)
               base == IF status.exc = "none" /\ target.exc = "none" /\ ~cached
                       THEN NeedsRunInTarget(status.value, target.value)
                       ELSE {}
           IN  \E order \in Orders(base) :
                   LET filtered == filter_jobs_by_status(job_configs, dependencies,
                                                         status, cached, pattern, order)
                   IN  IF filtered.exc = "none"
                       THEN /\ target_pattern' = pattern
                            /\ include_cached' = cached
                            /\ job_status' = status.value
                            /\ jobs_to_run' = filtered.value
                            /\ pc' = "filtered"
                       ELSE /\ pc' = "raised"
                            /\ target_pattern' = pattern
                            /\ include_cached' = cached
                            /\ UNCHANGED <<job_status, jobs_to_run>>
    /\ UNCHANGED <<job_configs, dependencies, submitted_jobs, dry_run, execution_order,
                   runVars,
                   status_result, dag_result, nameVars>>

CallGetExecutionOrder ==
    /\ pc = "filtered"
    /\ \E order \in Orders(jobs_to_run) :
           execution_order' = get_execution_order(dependencies, order)
    /\ pc' = "ordered"
    /\ UNCHANGED <<job_configs, dependencies, submitted_jobs, dry_run, target_pattern,
                   include_cached, job_status, jobs_to_run, runVars,
                   status_result, dag_result, nameVars>>

PlanInit == Init /\ dry_run = FALSE /\ user_run_group = <<>>

PlanNext ==
    \/ CallLoadJobConfigs
    \/ CallLoadDependencies
    \/ CallFilterJobsByStatus
    \/ CallGetExecutionOrder

SpecPlan == PlanInit /\ [][PlanNext]_vars

(***************************************************************************)
(* run_pipeline, one action per dealing with the outside: the oracle's     *)
(* version check, the configuration file, the graph query, the secrets,    *)
(* the status query, the confirmation prompt, each submission command and   *)
(* each prompt after a failure.                                            *)
(***************************************************************************)
\* job_key of the loop for job_key in batch
CurrentJob == execution_order[batch_index][job_index]

\* the submission commands run so far
Commands == SelectSeq(io, LAMBDA event : event.ev = "command")

\* the loops move on to next; after the loops secrets_env is cleared and
\* run_pipeline returns failed_count == 0
Goto(next, failures) ==
    /\ pc' = next.pc
    /\ batch_index' = next.batch_index
    /\ job_index' = next.job_index
    /\ batch_failures' = next.batch_failures
    /\ failed_count' = failures
    /\ secrets_env' = IF next.pc = "returned" THEN {} ELSE secrets_env
    /\ success' = IF next.pc = "returned"
                 THEN (IF failures = 0 THEN "True" ELSE "False")
                 ELSE success

\* if not self.check_dvc_available(): sys.exit(1)
CheckDvcAvailable ==
    /\ pc = "new"
    /\ \E available \in BOOLEAN :
           pc' = IF available THEN "run_dvc_checked" ELSE "exited"
    /\ UNCHANGED <<job_configs, dependencies, submitted_jobs, dry_run, target_pattern,
                   include_cached, job_status, jobs_to_run, execution_order, runVars,
                   status_result, dag_result, nameVars>>

\* if not self.job_configs: self.load_job_configs()
RunLoadJobConfigs ==
    /\ pc = "run_dvc_checked"
    /\ \E registry \in RunRegistries :
           job_configs' = IF job_configs = <<>> THEN registry ELSE job_configs
    /\ pc' = "run_configs_loaded"
    /\ UNCHANGED <<dependencies, submitted_jobs, dry_run, target_pattern,
                   include_cached, job_status, jobs_to_run, execution_order, runVars,
                   status_result, dag_result, nameVars>>

\* self.load_dependencies_from_dvc() up to the return of the graph query
RunQueryDag ==
    /\ pc = "run_configs_loaded"
    /\ \E dag \in RunDagResults : dag_result' = dag
    /\ pc' = "run_dag_returned"
    /\ UNCHANGED <<job_configs, dependencies, submitted_jobs, dry_run, target_pattern,
                   include_cached, job_status, jobs_to_run, execution_order, runVars,
                   status_result, nameVars>>

\* self.load_dependencies_from_dvc() from the return of the graph query on;
\* result is released when the call returns and stays in the frame of the
\* exception when it raises
RunLoadDependencies ==
    /\ pc = "run_dag_returned"
    /\ LET loaded == load_dependencies_from_dvc(job_configs, dependencies, dag_result)
       IN  IF loaded.exc = "none"
           THEN /\ dependencies' = loaded.value
                /\ dag_result' = NoDagResult
                /\ pc' = "run_dependencies_loaded"
           ELSE /\ dependencies' = dependencies
                /\ dag_result' = dag_result
                /\ pc' = "raised"
    /\ UNCHANGED <<job_configs, submitted_jobs, dry_run, target_pattern,
                   include_cached, job_status, jobs_to_run, execution_order, runVars,
                   status_result, nameVars>>

\* secrets_env = self.load_secrets(self.prompt_for_secrets_password())
RunLoadSecrets ==
    /\ pc = "run_dependencies_loaded"
    /\ \E secrets \in SecretsOutcomes :
           IF secrets.exc = "none"
           THEN secrets_env' = secrets.value /\ pc' = "run_secrets_loaded"
           ELSE secrets_env' = secrets_env /\ pc' = "raised"
    /\ UNCHANGED <<job_configs, dependencies, submitted_jobs, dry_run, target_pattern,
                   include_cached, job_status, jobs_to_run, execution_order,
                   batch_index, job_index, batch_failures, failed_count,
                   submitted_count, io, success,
                   status_result, dag_result, nameVars>>

\* jobs_to_run = self.filter_jobs_by_status(include_cached=False, ...);
\* if not jobs_to_run: return True
RunFilterJobs ==
    /\ pc = "run_secrets_loaded"
    /\ \E status \in StatusOutcomes[job_configs], pattern \in TargetPatterns :
           LET target == TargetJobs(job_configs, dependencies, pattern)
               base == IF status.exc = "none" /\ target.exc = "none"
                       THEN NeedsRunInTarget(status.value, target.value)
                       ELSE {}
           IN  \E order \in Orders(base) :
                   LET filtered == filter_jobs_by_status(job_configs, dependencies,
                                                         status, FALSE, pattern, order)
                   IN  IF filtered.exc # "none"
                       THEN /\ pc' = "raised"
                            /\ target_pattern' = pattern
                            /\ UNCHANGED <<job_status, jobs_to_run, success>>
                       ELSE /\ target_pattern' = pattern
                            /\ job_status' = status.value
                            /\ jobs_to_run' = filtered.value
                            /\ IF filtered.value = {}
                               THEN pc' = "returned" /\ success' = "True"
                               ELSE pc' = "run_confirm" /\ success' = success
    /\ UNCHANGED <<job_configs, dependencies, submitted_jobs, dry_run, include_cached,
                   execution_order, secrets_env, batch_index, job_index,
                   batch_failures, failed_count, submitted_count, io,
                   status_result, dag_result, nameVars>>

\* execution_order = self.get_execution_order(jobs_to_run), and the loops
\* entered (no batch: the statements after the loops)
StartBatches ==
    \E order \in Orders(jobs_to_run) :
        /\ execution_order' = get_execution_order(dependencies, order)
        /\ IF execution_order' = <<>>
           THEN Goto(LoopState("returned", 0, 0, 0), 0)
           ELSE Goto(LoopState("run_submit", 1, 1, 0), 0)

\* the preview, then: if not self.dry_run: response = input("Submit these
\* jobs? (y/N): "); anything but y or yes returns False
ConfirmSubmission ==
    /\ pc = "run_confirm"
    /\ IF dry_run
       THEN io' = io /\ StartBatches
       ELSE \E typed \in Inputs :
                /\ io' = Append(io, InputEvent("submit", typed))
                /\ IF typed.raised # "none"
                   THEN /\ pc' = "raised"
                        /\ UNCHANGED <<execution_order, secrets_env, batch_index,
                                       job_index, batch_failures, failed_count, success>>
                   ELSE IF ~IsYes(typed.response)
                        THEN /\ pc' = "returned"
                             /\ success' = "False"
                             /\ UNCHANGED <<execution_order, secrets_env, batch_index,
                                            job_index, batch_failures, failed_count>>
                   ELSE StartBatches
    /\ UNCHANGED <<job_configs, dependencies, submitted_jobs, dry_run, target_pattern,
                   include_cached, job_status, jobs_to_run, submitted_count,
                   status_result, dag_result, nameVars>>

\* the branch of run_pipeline that records a job id submit_job returned
RecordJobId(job_id) ==
    IF IsFailedId(job_id)
    THEN /\ submitted_jobs' = submitted_jobs
         /\ submitted_count' = submitted_count
         /\ Goto(NextJob(execution_order, batch_index, job_index,
                         batch_failures + 1, TRUE),
                 failed_count + 1)
    ELSE /\ submitted_jobs' = RecordSubmitted(submitted_jobs, CurrentJob, job_id)
         /\ submitted_count' = submitted_count + 1
         /\ Goto(NextJob(execution_order, batch_index, job_index, batch_failures, TRUE),
                 failed_count)

\* except Exception: the failure is counted and the user is asked
CountUnexpected ==
    /\ failed_count' = failed_count + 1
    /\ batch_failures' = batch_failures + 1
    /\ pc' = "run_unexpected_prompt"
    /\ UNCHANGED <<submitted_jobs, submitted_count, batch_index, job_index,
                   secrets_env, success>>

\* except KeyboardInterrupt without the break: the loop goes on with the
\* next job of the batch
ContinueOnInterrupt ==
    /\ Goto(NextJob(execution_order, batch_index, job_index, batch_failures, TRUE),
            failed_count)
    /\ UNCHANGED <<submitted_jobs, submitted_count>>

\* except KeyboardInterrupt: break
BreakOnInterrupt ==
    /\ Goto(NextJob(execution_order, batch_index, job_index, batch_failures, FALSE),
            failed_count)
    /\ UNCHANGED <<submitted_jobs, submitted_count>>

\* job_id = self.submit_job(job_key, ...) up to the return of the external
\* command
SubmitJob ==
    /\ pc = "run_submit"
    /\ IF dry_run
       THEN /\ io' = io
            /\ _run_group_id' = _run_group_id
            /\ RecordJobId(JobId("fake_", Len(submitted_jobs)))
       ELSE \E outcome \in CommandResults, commit_short \in CommitOutcomes :
                /\ _run_group_id' = generate_run_group_id(_run_group_id, user_run_group,
                                                          Len(io), commit_short)
                /\ io' = Append(io, CommandEvent(
                                        CurrentJob,
                                        _run_group_id',
                                        DepJobIds(dependencies, jobs_to_run,
                                                  submitted_jobs, CurrentJob),
                                        outcome))
                /\ CASE outcome = "id" ->
                            RecordJobId(JobId("", Len(Commands) + 1))
                     [] outcome = "no_id" ->
                            RecordJobId(JobId("unknown_", Len(submitted_jobs)))
                     [] outcome = "CalledProcessError" ->
                            /\ pc' = "run_failed_prompt"
                            /\ UNCHANGED <<submitted_jobs, submitted_count, batch_index,
                                           job_index, batch_failures, failed_count,
                                           secrets_env, success>>
                     [] outcome = "OSError" -> CountUnexpected
                     [] outcome = "KeyboardInterrupt" -> BreakOnInterrupt
    /\ UNCHANGED <<job_configs, dependencies, dry_run, target_pattern, include_cached,
                   job_status, jobs_to_run, execution_order,
                   status_result, dag_result, dvc_node, matching_jobs, user_run_group,
                   mergeVars>>

\* submit_job after CalledProcessError: input("Job submission failed.
\* Continue with remaining jobs? (y/N): "); yes returns failed_N, anything
\* else raises again
AnswerSubmissionFailed ==
    /\ pc = "run_failed_prompt"
    /\ \E typed \in FailureInputs :
           /\ io' = Append(io, InputEvent("failed", typed))
           /\ IF typed.raised # "none" THEN BreakOnInterrupt
              ELSE IF IsYes(typed.response)
                   THEN RecordJobId(JobId("failed_", Len(submitted_jobs)))
              ELSE CountUnexpected
    /\ UNCHANGED <<job_configs, dependencies, dry_run, target_pattern, include_cached,
                   job_status, jobs_to_run, execution_order,
                   status_result, dag_result, nameVars>>

\* run_pipeline, except Exception: input("Unexpected error occurred.
\* Continue? (y/N): "); anything but yes breaks out of the batch
AnswerUnexpectedError ==
    /\ pc = "run_unexpected_prompt"
    /\ \E typed \in FailureInputs :
           /\ io' = Append(io, InputEvent("unexpected", typed))
           /\ IF typed.raised # "none"
              THEN /\ pc' = "raised"
                   /\ UNCHANGED <<batch_index, job_index, batch_failures, failed_count,
                                  secrets_env, success>>
              ELSE Goto(NextJob(execution_order, batch_index, job_index,
                                batch_failures, IsYes(typed.response)),
                        failed_count)
    /\ UNCHANGED <<job_configs, dependencies, submitted_jobs, dry_run, target_pattern,
                   include_cached, job_status, jobs_to_run, execution_order,
                   submitted_count,
                   status_result, dag_result, nameVars>>

\* input("Many jobs failed in this batch. Continue to next batch? (y/N): ");
\* anything but yes breaks out of the loop over the batches
AnswerBatchFailures ==
    /\ pc = "run_batch_prompt"
    /\ \E typed \in FailureInputs :
           /\ io' = Append(io, InputEvent("batch", typed))
           /\ IF typed.raised # "none"
              THEN /\ pc' = "raised"
                   /\ UNCHANGED <<batch_index, job_index, batch_failures, failed_count,
                                  secrets_env, success>>
              ELSE IF IsYes(typed.response)
                   THEN Goto(NextBatch(execution_order, batch_index, batch_failures),
                             failed_count)
              ELSE Goto(LoopState("returned", batch_index, job_index, batch_failures),
                        failed_count)
    /\ UNCHANGED <<job_configs, dependencies, submitted_jobs, dry_run, target_pattern,
                   include_cached, job_status, jobs_to_run, execution_order,
                   submitted_count,
                   status_result, dag_result, nameVars>>

RunNext ==
    \/ CheckDvcAvailable
    \/ RunLoadJobConfigs
    \/ RunQueryDag
    \/ RunLoadDependencies
    \/ RunLoadSecrets
    \/ RunFilterJobs
    \/ ConfirmSubmission
    \/ SubmitJob
    \/ AnswerSubmissionFailed
    \/ AnswerUnexpectedError
    \/ AnswerBatchFailures

SpecRun == Init /\ [][RunNext]_vars

\* control leaves the statement it is at: pc moves, or the loops move to
\* another job or batch (every step of RunNext is such a step)
ControlMoves ==
    /\ pc \notin {"returned", "raised", "exited"}
    /\ pc' \in {"run_dvc_checked", "run_configs_loaded", "run_dag_returned",
                "run_dependencies_loaded", "run_secrets_loaded", "run_confirm",
                "run_submit", "run_failed_prompt", "run_unexpected_prompt",
                "run_batch_prompt", "returned", "raised", "exited"}
    /\ batch_index' \in 0..Len(job_configs)
    /\ job_index' \in 0..Len(job_configs)

\* the run keeps going: a call that returns and a prompt that is answered
\* let the next statement of run_pipeline execute
SpecRunFair == SpecRun /\ WF_<<pc, batch_index, job_index>>(ControlMoves)

(***************************************************************************)
(* check_job_status called on the loaded registry, as the status check of  *)
(* main does.                                                              *)
(***************************************************************************)
\* the node names of the status outputs: two jobs, a stage, a step, an
\* unknown name
StatusNames == {NodeAt(a_x), NodeAt(b_z), <<"a">>, <<"z">>, <<"q">>}

CallCheckJobStatus ==
    /\ pc = "configs_loaded"
    /\ \E status \in StatusResults(StatusNames) :
           LET checked == check_job_status(job_configs, status)
           IN  /\ status_result' = status
               /\ IF checked.exc = "none"
                  THEN job_status' = checked.value /\ pc' = "status_checked"
                  ELSE job_status' = job_status /\ pc' = "raised"
    /\ UNCHANGED <<job_configs, dependencies, submitted_jobs, dry_run, target_pattern,
                   include_cached, jobs_to_run, execution_order, runVars, dag_result, nameVars>>

StatusNext ==
    \/ CallLoadJobConfigs
    \/ CallCheckJobStatus

SpecStatus == PlanInit /\ [][StatusNext]_vars

(***************************************************************************)
(* The name-matching methods called on a loaded registry.                  *)
(***************************************************************************)
LoadNameRegistry ==
    /\ pc = "new"
    /\ \E registry \in NameRegistries : job_configs' = registry
    /\ pc' = "configs_loaded"
    /\ UNCHANGED <<dependencies, submitted_jobs, dry_run, target_pattern,
                   include_cached, job_status, jobs_to_run, execution_order, runVars,
                   status_result, dag_result, nameVars>>

\* dep_jobs = self._find_matching_jobs(dependency)
CallFindMatchingJobs ==
    /\ pc = "configs_loaded"
    /\ \E name \in ResolveNames :
           /\ dvc_node' = name
           /\ matching_jobs' = _find_matching_jobs(job_configs, name)
    /\ pc' = "node_matched"
    /\ UNCHANGED <<job_configs, dependencies, submitted_jobs, dry_run, target_pattern,
                   include_cached, job_status, jobs_to_run, execution_order, runVars,
                   status_result, dag_result, user_run_group, _run_group_id,
                   mergeVars>>

\* job_keys = self._dvc_stage_to_job_keys(stage_name)
CallDvcStageToJobKeys ==
    /\ pc = "configs_loaded"
    /\ \E name \in ResolveNames :
           /\ dvc_node' = name
           /\ matching_jobs' = _dvc_stage_to_job_keys(job_configs, name)
    /\ pc' = "stage_converted"
    /\ UNCHANGED <<job_configs, dependencies, submitted_jobs, dry_run, target_pattern,
                   include_cached, job_status, jobs_to_run, execution_order, runVars,
                   status_result, dag_result, user_run_group, _run_group_id,
                   mergeVars>>

\* main: matching_jobs = submitter._find_target_jobs_by_pattern(args.target);
\* if not matching_jobs: sys.exit(1)
ValidateTarget ==
    /\ pc = "configs_loaded"
    /\ \E pattern \in NamePatterns :
           /\ target_pattern' = pattern
           /\ matching_jobs' = _find_target_jobs_by_pattern(job_configs, pattern)
    /\ pc' = IF matching_jobs' = <<>> THEN "exited" ELSE "target_matched"
    /\ UNCHANGED <<job_configs, dependencies, submitted_jobs, dry_run,
                   include_cached, job_status, jobs_to_run, execution_order, runVars,
                   status_result, dag_result, dvc_node, user_run_group,
                   _run_group_id, mergeVars>>

NamesNext ==
    \/ LoadNameRegistry
    \/ CallFindMatchingJobs
    \/ CallDvcStageToJobKeys
    \/ ValidateTarget

SpecNames == PlanInit /\ [][NamesNext]_vars

(***************************************************************************)
(* The lock merger: merge_from_branches.                                   *)
(***************************************************************************)
otherVars == <<job_configs, dependencies, submitted_jobs, dry_run, target_pattern,
               include_cached, job_status, jobs_to_run, execution_order, runVars,
               status_result, dag_result, dvc_node, matching_jobs, user_run_group,
               _run_group_id>>

\* merge_from_branches(branches, work_branch, dry_run) up to the loop:
\* save_current_lock and the load of the saved lock
CallMergeFromBranches ==
    /\ pc = "new"
    /\ \E n \in 0..MaxBranches : branches' = SubSeq(BranchNames, 1, n)
    /\ merge_dry_run' \in BOOLEAN
    /\ \E exists \in BOOLEAN, current \in Locks :
           merged_lock' = IF exists THEN current ELSE Lock(TRUE, <<>>)
    /\ branch_index' = 1
    /\ pc' = "merge_branches"
    /\ UNCHANGED <<total_stats, branch_errors, merge_call, checked_out,
                   work_branch_created, lock_written, committed, otherVars>>

\* the body of the loop over the branches: the checkout of origin/branch
\* (which can raise), the load of its dvc.lock if there is one, merge_locks
ProcessBranch ==
    /\ pc = "merge_branches"
    /\ branch_index <= Len(branches)
    /\ \E outcome \in {"checkout raises", "no dvc.lock", "dvc.lock"}, found \in Locks :
           IF outcome = "checkout raises"
           THEN /\ branch_errors' = branch_errors \cup {branches[branch_index]}
                /\ UNCHANGED <<checked_out, merged_lock, total_stats, merge_call>>
           ELSE /\ checked_out' = Checkout("origin", branches[branch_index])
                /\ branch_errors' = branch_errors
                /\ IF outcome = "no dvc.lock"
                   THEN UNCHANGED <<merged_lock, total_stats, merge_call>>
                   ELSE LET result == merge_locks(merged_lock, found)
                        IN  /\ merged_lock' = result.merged
                            /\ total_stats' =
                                   [key \in DOMAIN total_stats |->
                                       total_stats[key] + result.stats[key]]
                            /\ merge_call' =
                                   [made |-> TRUE, base_lock |-> merged_lock,
                                    branch_lock |-> found,
                                    base_lock_after |-> result.base_lock,
                                    stats |-> result.stats]
    /\ branch_index' = branch_index + 1
    /\ UNCHANGED <<merge_dry_run, branches, work_branch_created, lock_written,
                   committed, pc, otherVars>>

\* Step 3 left out: the method goes on with whatever is checked out
StayOnLastBranch ==
    /\ pc = "merge_branches"
    /\ branch_index > Len(branches)
    /\ pc' = "merge_merged"
    /\ UNCHANGED <<merge_dry_run, branches, branch_index, merged_lock, total_stats,
                   branch_errors, merge_call, checked_out, work_branch_created,
                   lock_written, committed, otherVars>>

\* Step 3: self.repo.git.checkout(self.original_branch), which returns or
\* raises
ReturnToOriginalBranch ==
    /\ pc = "merge_branches"
    /\ branch_index > Len(branches)
    /\ \E raises \in BOOLEAN :
           IF raises
           THEN pc' = "raised" /\ checked_out' = checked_out
           ELSE pc' = "merge_merged" /\ checked_out' = original_branch
    /\ UNCHANGED <<merge_dry_run, branches, branch_index, merged_lock, total_stats,
                   branch_errors, merge_call, work_branch_created, lock_written,
                   committed, otherVars>>

\* Step 4: if not dry_run and final_stage_count > 0, the work branch is
\* created and checked out, dvc.lock written and committed, and the
\* original branch checked out again; a statement that raises (failed_at)
\* leads to the handler, whose checkout returns or raises
CreateWorkBranch ==
    /\ pc = "merge_merged"
    /\ IF ~merge_dry_run /\ Len(merged_lock.stages) > 0
       THEN \E failed_at \in {"none", "create_head", "checkout", "write", "commit",
                               "return"},
               handler_raises \in BOOLEAN :
                /\ work_branch_created' = (failed_at # "create_head")
                /\ lock_written' = (failed_at \notin {"create_head", "checkout"})
                /\ committed' = (failed_at \in {"none", "return"})
                /\ IF failed_at = "none" \/ ~handler_raises
                   THEN pc' = "merge_returned" /\ checked_out' = original_branch
                   ELSE /\ pc' = "raised"
                        /\ checked_out' = IF failed_at \in {"create_head", "checkout"}
                                          THEN original_branch
                                          ELSE work_branch
       ELSE /\ pc' = "merge_returned"
            /\ UNCHANGED <<checked_out, work_branch_created, lock_written, committed>>
    /\ UNCHANGED <<merge_dry_run, branches, branch_index, merged_lock, total_stats,
                   branch_errors, merge_call, otherVars>>

MergeNext ==
    \/ CallMergeFromBranches
    \/ ProcessBranch
    \/ ReturnToOriginalBranch
    \/ CreateWorkBranch

SpecMerge == PlanInit /\ [][MergeNext]_vars

(***************************************************************************)
(* The notions of the data model, stated on the state without the code's   *)
(* traversals: a fixpoint of the dependency edges.                         *)
(***************************************************************************)
Registered == Range(job_configs)

\* the jobs job depends on by one edge
DirectDeps(job) == Range(DepsOf(dependencies, job))

\* the least set that contains S and every dependency of its members
RECURSIVE UpClosure(_)
UpClosure(S) ==
    LET T == S \cup UNION {DirectDeps(job) : job \in S}
    IN  IF T = S THEN S ELSE UpClosure(T)

\* the jobs job depends on through a chain of one or more edges
Upstream(job) == UpClosure(DirectDeps(job))

\* TargetSet: the closure of the pattern's matches, or all registered jobs
TargetSet ==
    IF target_pattern = NoTarget THEN Registered
    ELSE UpClosure(Range(_find_target_jobs_by_pattern(job_configs, target_pattern)))

\* the jobs of the schedule, and the batches a job is in
Scheduled == UNION {Range(execution_order[k]) : k \in 1..Len(execution_order)}

BatchesOf(job) ==
    {k \in 1..Len(execution_order) : Contains(execution_order[k], job)}

Filtered == pc \in {"filtered", "ordered"}

(***************************************************************************)
(* C1: every job of the set filter_jobs_by_status returns (RunSet) is a    *)
(* member of TargetSet, for every registry, graph, verdict map, pattern    *)
(* and include_cached value.                                               *)
(***************************************************************************)
C1_RunSetInTargetSet == Filtered => jobs_to_run \subseteq TargetSet

\* a target is given, the cascade has run, and a job outside TargetSet
\* depends on a job of RunSet
C1_Witness ==
    /\ pc = "filtered"
    /\ ~include_cached
    /\ target_pattern # NoTarget
    /\ \E job \in Registered \ TargetSet : DirectDeps(job) \cap jobs_to_run # {}

(***************************************************************************)
(* C2: with include_cached false, RunSet is exactly the set of the jobs of *)
(* TargetSet that are NeedsRun or depend, through one or more dependency   *)
(* edges, on a NeedsRun job.                                               *)
(***************************************************************************)
NeedsRun(job) == job \in DOMAIN job_status /\ job_status[job] = "needs_run"

C2_RunSetIsCascade ==
    (Filtered /\ ~include_cached) =>
        jobs_to_run = {job \in TargetSet :
                           NeedsRun(job) \/ \E up \in Upstream(job) : NeedsRun(up)}

\* a cached job of RunSet all of whose direct dependencies are cached too:
\* it is reached through an intermediate job only
C2_Witness ==
    /\ pc = "filtered"
    /\ ~include_cached
    /\ \E job \in jobs_to_run :
           /\ ~NeedsRun(job)
           /\ \A dep \in DirectDeps(job) : ~NeedsRun(dep)
    /\ \E job \in TargetSet : job \notin jobs_to_run

(***************************************************************************)
(* C3: in the batch list of get_execution_order every job appears in at    *)
(* most one batch (and once), and each dependency of a scheduled job that  *)
(* is in RunSet appears in a strictly earlier batch.                       *)
(***************************************************************************)
C3_BatchesRespectDependencies ==
    pc = "ordered" =>
        /\ \A k \in 1..Len(execution_order) :
               \A m, n \in 1..Len(execution_order[k]) :
                   execution_order[k][m] = execution_order[k][n] => m = n
        /\ \A job \in Scheduled :
               /\ Cardinality(BatchesOf(job)) = 1
               /\ \A dep \in DirectDeps(job) \cap jobs_to_run :
                      \E k \in BatchesOf(dep) : \A n \in BatchesOf(job) : k < n

\* three batches, and a scheduled job with a dependency outside RunSet
C3_Witness ==
    /\ pc = "ordered"
    /\ Len(execution_order) >= 3
    /\ \E job \in Scheduled : DirectDeps(job) \ jobs_to_run # {}

(***************************************************************************)
(* C4: the union of the batches of get_execution_order equals RunSet, for  *)
(* every RunSet and every dependency graph the Graph Builder can produce.  *)
(***************************************************************************)
C4_ScheduleCoversRunSet == pc = "ordered" => Scheduled = jobs_to_run

(***************************************************************************)
(* The log of a run read back: which events are commands, which prompts,   *)
(* and what the user answered.                                             *)
(***************************************************************************)
IsCommand(k) == io[k].ev = "command"

IsInput(k, prompt) == io[k].ev = "input" /\ io[k].prompt = prompt

\* the answers y and yes among the lines the user types in the model
Affirmative == {<<"y">>, <<"Y", "E", "S", " ">>}

\* the user answered the prompt of event k with y or yes
SaidYes(k) == io[k].raised = "none" /\ io[k].response \in Affirmative

\* the user answered the prompt of event k, with something else
Declined(k) == io[k].raised = "none" /\ io[k].response \notin Affirmative

\* the jobs whose submission failed before event k and that the user chose
\* to continue past
FailedAndContinued(k) ==
    {io[m].job : m \in {n \in 1..(k - 2) :
                            /\ IsCommand(n)
                            /\ io[n].outcome = "CalledProcessError"
                            /\ IsInput(n + 1, "failed")
                            /\ SaidYes(n + 1)}}

\* the commands that submit a job of batch b, and of the batches after b
CommandsOf(b) ==
    {k \in 1..Len(io) : IsCommand(k) /\ Contains(execution_order[b], io[k].job)}

CommandsAfter(b) ==
    UNION {CommandsOf(later) : later \in (b + 1)..Len(execution_order)}

\* the commands of batch b whose submission failed: the command could not
\* be started, or it exited non-zero and the user answered the prompt
FailedIn(b) ==
    {k \in CommandsOf(b) :
        \/ io[k].outcome = "OSError"
        \/ /\ io[k].outcome = "CalledProcessError"
           /\ k < Len(io)
           /\ io[k + 1].raised = "none"}

\* the "Continue to next batch?" prompts shown after batch b and before any
\* command of a later batch
BatchPromptsOf(b) ==
    {k \in 1..Len(io) :
        /\ IsInput(k, "batch")
        /\ CommandsOf(b) # {}
        /\ \A m \in CommandsOf(b) : m < k
        /\ \A m \in CommandsAfter(b) : k < m}

(***************************************************************************)
(* C5: whenever submit_job builds a dependency constraint, every id of the *)
(* afterok list is the id recorded in SubmittedJob, at that moment, for a  *)
(* dependency of the job that is a member of RunSet; no other job is       *)
(* referenced.                                                             *)
(***************************************************************************)
C5_AfterokOnlySubmittedRunSetDeps ==
    [][Len(io') > Len(io) /\ io'[Len(io')].ev = "command" =>
           LET command == io'[Len(io')]
           IN  \A n \in 1..Len(command.afterok) :
                   \E dep \in DirectDeps(command.job) \cap jobs_to_run :
                       /\ IsSubmitted(submitted_jobs, dep)
                       /\ SubmittedId(submitted_jobs, dep) = command.afterok[n]]_vars

\* a command with an afterok clause for a job that has another dependency,
\* one the clause leaves out
C5_Witness ==
    \E k \in 1..Len(io) :
        /\ IsCommand(k)
        /\ io[k].afterok # <<>>
        /\ Len(io[k].afterok) < Cardinality(DirectDeps(io[k].job))

(***************************************************************************)
(* C6: outside dry-run mode no submission command runs before the user has *)
(* answered the "Submit these jobs?" prompt with y or yes, and any other   *)
(* answer ends the run (run_pipeline returns False) with no command run    *)
(* and nothing recorded; in dry-run mode no submission command runs.       *)
(***************************************************************************)
C6_NoSubmissionBeforeConfirmation ==
    /\ dry_run => Commands = <<>>
    /\ \A k \in 1..Len(io) :
           IsCommand(k) => \E c \in 1..(k - 1) : IsInput(c, "submit") /\ SaidYes(c)
    /\ \A c \in 1..Len(io) :
           (IsInput(c, "submit") /\ Declined(c)) =>
               /\ Len(io) = c
               /\ pc = "returned"
               /\ success = "False"
               /\ submitted_jobs = <<>>

\* the user confirmed with "YES " and a command has run
C6_Witness ==
    /\ ~dry_run
    /\ Commands # <<>>
    /\ io[1].ev = "input"
    /\ io[1].response = <<"Y", "E", "S", " ">>

(***************************************************************************)
(* C7: if a job's submission fails and the user answers the continue/abort *)
(* prompt with anything other than y or yes, no further job is submitted,  *)
(* in the current batch or in a later one.  Stated in the form most        *)
(* favourable to the code: the user answers no prompt after that one with  *)
(* y or yes either.                                                        *)
(***************************************************************************)
C7_DeclineEndsSubmissions ==
    \A k \in 1..Len(io) :
        (/\ IsInput(k, "failed")
         /\ Declined(k)
         /\ \A m \in (k + 1)..Len(io) : io[m].ev = "input" => ~SaidYes(m)) =>
            \A m \in (k + 1)..Len(io) : ~IsCommand(m)

(***************************************************************************)
(* C8: a job whose submission failed and that the user chose to continue   *)
(* past never appears in the dependency constraint of a job submitted      *)
(* later: no afterok id is a failed_N marker, the afterok list has at most *)
(* one id per RunSet dependency that did not fail, and so a dependent      *)
(* whose only RunSet dependencies failed is submitted with no afterok      *)
(* clause.                                                                 *)
(***************************************************************************)
C8_FailedJobNotInConstraint ==
    \A k \in 1..Len(io) :
        IsCommand(k) =>
            /\ \A n \in 1..Len(io[k].afterok) : io[k].afterok[n].prefix # "failed_"
            /\ Len(io[k].afterok) <=
                   Cardinality((DirectDeps(io[k].job) \cap jobs_to_run)
                                   \ FailedAndContinued(k))

\* a job is submitted with no afterok clause, all its RunSet dependencies
\* (there is one) having failed
C8_Witness ==
    \E k \in 1..Len(io) :
        /\ IsCommand(k)
        /\ io[k].afterok = <<>>
        /\ DirectDeps(io[k].job) \cap jobs_to_run # {}
        /\ DirectDeps(io[k].job) \cap jobs_to_run \subseteq FailedAndContinued(k)

C10_UnparseableStatusNeedsRun ==
    LET stdout == status_result.stdout
    IN  (/\ pc = "status_checked"
         /\ status_result.returncode = 0
         /\ ~IsBlank(stdout)
         /\ ~JsonLoads(JsonText(stdout))
         /\ \A name \in QuotedNames(stdout) :
                _dvc_stage_to_job_keys(job_configs, name) = <<>>) =>
            \A job \in Registered : job_status[job] = "needs_run"

(***************************************************************************)
(* C11: if the status query exits non-zero, check_job_status returns a     *)
(* verdict map in which every registered job is NeedsRun, whatever the     *)
(* query wrote; no job is reported Cached.                                 *)
(***************************************************************************)
C11_StatusErrorNeedsRun ==
    (status_result.outcome = "exit" /\ status_result.returncode # 0) =>
        /\ pc = "status_checked"
        /\ DOMAIN job_status = Registered
        /\ \A job \in Registered : job_status[job] = "needs_run"

\* the query exited non-zero after writing the JSON of "nothing changed"
C11_Witness ==
    /\ pc = "status_checked"
    /\ status_result.returncode # 0
    /\ status_result.stdout = <<OpenLine, CloseLine>>

C13_ScenarioOneEdge ==
    LET registry == <<a_x, a_y, b_z>>
        dump == DagResult("exit", 0, <<OtherLine, EdgeLine(NodeAt(a_x), NodeAt(b_z))>>)
        report == StatusResult("exit", 0,
                               <<OpenLine, EntryLine(NodeAt(a_x)), CloseLine>>)
        verdicts == check_job_status(registry, report).value
    IN  (/\ pc = "ordered"
         /\ job_configs = registry
         /\ dependencies = load_dependencies_from_dvc(registry, <<>>, dump).value
         /\ job_status = verdicts
         /\ target_pattern = NoTarget
         /\ ~include_cached) =>
            /\ verdicts = (a_x :> "needs_run" @@ a_y :> "cached" @@ b_z :> "cached")
            /\ jobs_to_run = {a_x, b_z}
            /\ execution_order = <<<<a_x>>, <<b_z>>>>

\* the scenario has been run: b:z depends on a:x only, a:x alone is stale
C13_Witness ==
    /\ pc = "ordered"
    /\ job_configs = <<a_x, a_y, b_z>>
    /\ dependencies = <<[job |-> b_z, deps |-> <<a_x>>]>>
    /\ job_status = (a_x :> "needs_run" @@ a_y :> "cached" @@ b_z :> "cached")
    /\ target_pattern = NoTarget
    /\ ~include_cached

(***************************************************************************)
(* C14: every scheduled job is in the earliest possible batch: batch 1 if  *)
(* it has no dependency inside RunSet, and otherwise batch k+1, k being    *)
(* the largest batch number of its dependencies inside RunSet, all of      *)
(* which are scheduled; dependencies outside RunSet count for nothing.     *)
(***************************************************************************)
C14_EarliestBatch ==
    pc = "ordered" =>
        \A job \in Scheduled :
            LET inside == DirectDeps(job) \cap jobs_to_run
                last == CHOOSE k \in UNION {BatchesOf(dep) : dep \in inside} :
                            \A dep \in inside : \A n \in BatchesOf(dep) : n <= k
            IN  IF inside = {}
                THEN BatchesOf(job) = {1}
                ELSE /\ inside \subseteq Scheduled
                     /\ BatchesOf(job) = {last + 1}

\* a job of the third batch with two dependencies inside RunSet
C14_Witness ==
    /\ pc = "ordered"
    /\ \E job \in Scheduled :
           /\ BatchesOf(job) = {3}
           /\ Cardinality(DirectDeps(job) \cap jobs_to_run) >= 2

(***************************************************************************)
(* C15: get_target_jobs returns the least set that contains every job the  *)
(* pattern matches and is closed under dependency edges: it contains the   *)
(* matches, it contains every dependency of each of its members, and every *)
(* set of registered jobs with these two properties includes it.  With     *)
(* include_cached set, filter_jobs_by_status returns that set unchanged.   *)
(***************************************************************************)
C15_TargetJobsLeastClosedSet ==
    LET matched == Range(_find_target_jobs_by_pattern(job_configs, target_pattern))
        Closed(T) == matched \subseteq T /\ \A job \in T : DirectDeps(job) \subseteq T
    IN  (Filtered /\ include_cached /\ target_pattern # NoTarget) =>
            /\ jobs_to_run = get_target_jobs(job_configs, dependencies, target_pattern).value
            /\ Closed(jobs_to_run)
            /\ \A T \in SUBSET Registered : Closed(T) => jobs_to_run \subseteq T

\* a diamond of four distinct jobs: the matched job has two dependencies
\* that share a dependency
C15_Witness ==
    /\ Filtered /\ include_cached /\ target_pattern # NoTarget
    /\ \E top \in Range(_find_target_jobs_by_pattern(job_configs, target_pattern)) :
           \E left \in DirectDeps(top) \ {top} :
               \E right \in DirectDeps(top) \ {top, left} :
                   (DirectDeps(left) \cap DirectDeps(right)) \ {top, left, right} # {}

(***************************************************************************)
(* C16: whenever run_pipeline has returned (run completed, confirmation    *)
(* declined, nothing to run, or stopped after a failure), the dictionary   *)
(* load_secrets returned is empty.                                         *)
(***************************************************************************)
C16_SecretsClearedOnReturn == pc = "returned" => secrets_env = {}

(***************************************************************************)
(* C17: run_pipeline returns True only on full success: every job of       *)
(* RunSet has an entry in submitted_jobs, and no submission command of the *)
(* run failed (exited non-zero or could not be started).                   *)
(***************************************************************************)
C17_TrueOnlyOnFullSuccess ==
    success = "True" =>
        /\ \A job \in jobs_to_run : IsSubmitted(submitted_jobs, job)
        /\ \A k \in 1..Len(io) :
               IsCommand(k) => io[k].outcome \notin {"CalledProcessError", "OSError"}

(***************************************************************************)
(* C18: an interrupt is a clean stop: once a KeyboardInterrupt has left    *)
(* submit_job (raised by the submission command or by the prompt that      *)
(* follows a failed command), no submission command runs afterwards, and   *)
(* every job whose command succeeded before still has its entry in         *)
(* submitted_jobs.                                                         *)
(***************************************************************************)
C18_InterruptIsCleanStop ==
    \A k \in 1..Len(io) :
        (\/ IsCommand(k) /\ io[k].outcome = "KeyboardInterrupt"
         \/ IsInput(k, "failed") /\ io[k].raised = "KeyboardInterrupt") =>
            /\ \A m \in (k + 1)..Len(io) : ~IsCommand(m)
            /\ \A m \in 1..(k - 1) :
                   (IsCommand(m) /\ io[m].outcome \in {"id", "no_id"}) =>
                       IsSubmitted(submitted_jobs, io[m].job)

(***************************************************************************)
(* C19: after a KeyboardInterrupt has left submit_job for a job of a       *)
(* batch, no submission command runs for another job of that batch; and    *)
(* from the interrupt on, every entry of submitted_jobs stays, with the    *)
(* same job id.                                                            *)
(***************************************************************************)
C19_InterruptStopsBatchKeepsEntries ==
    [][LET log == io'
           InterruptedAt(k) ==
               \/ log[k].ev = "command" /\ log[k].outcome = "KeyboardInterrupt"
               \/ /\ log[k].ev = "input" /\ log[k].prompt = "failed"
                  /\ log[k].raised = "KeyboardInterrupt"
           JobAt(k) == IF log[k].ev = "command" THEN log[k].job ELSE log[k - 1].job
           SameBatch(job, other) ==
               \E b \in 1..Len(execution_order') :
                   /\ Contains(execution_order'[b], job)
                   /\ Contains(execution_order'[b], other)
       IN  \A k \in 1..Len(log) : InterruptedAt(k) =>
               /\ \A m \in (k + 1)..Len(log) :
                      log[m].ev = "command" => ~SameBatch(JobAt(k), log[m].job)
               /\ Len(submitted_jobs') >= Len(submitted_jobs)
               /\ \A i \in 1..Len(submitted_jobs) :
                      submitted_jobs'[i] = submitted_jobs[i]]_vars

\* the command of a job was interrupted after a job of an earlier batch had
\* been submitted, a job of the same batch was still to come, and the run
\* went on to return
C19_Witness ==
    /\ pc = "returned"
    /\ submitted_jobs # <<>>
    /\ \E k \in 1..Len(io) :
           /\ IsCommand(k) /\ io[k].outcome = "KeyboardInterrupt"
           /\ \E b \in 1..Len(execution_order) :
                  \E i \in 1..(Len(execution_order[b]) - 1) :
                      /\ execution_order[b][i] = io[k].job
                      /\ ~IsSubmitted(submitted_jobs, execution_order[b][i + 1])

(***************************************************************************)
(* C20: when the graph query exits non-zero or returns empty output,       *)
(* load_dependencies_from_dvc raises and leaves the dependency mapping as  *)
(* it was, no prompt has been shown and no job submitted, and the run      *)
(* takes no further step.                                                  *)
(***************************************************************************)
C20_FailedGraphQueryStopsRun ==
    [][/\ (/\ pc = "run_dag_returned"
           /\ dag_result.outcome = "exit"
           /\ (dag_result.returncode # 0 \/ dag_result.stdout = <<>>)) =>
               /\ pc' = "raised"
               /\ dependencies' = dependencies
               /\ io' = <<>>
               /\ submitted_jobs' = <<>>
       /\ ~(pc = "raised" /\ dag_result # NoDagResult)]_vars

\* the query exited non-zero with an edge in its output, on a loaded
\* registry, and the call has raised
C20_Witness ==
    /\ pc = "raised"
    /\ job_configs # <<>>
    /\ dag_result = DagResult("exit", 1, <<EdgeLine(NodeAt(a_x), NodeAt(b_z))>>)

(***************************************************************************)
(* C21: when the graph query exits with 0 and writes text in which no line *)
(* is an edge, load_dependencies_from_dvc raises, so that the run does not *)
(* go on with a dependency mapping read from such text.                    *)
(***************************************************************************)
C21_UnparseableGraphIsFatal ==
    [][(/\ pc = "run_dag_returned"
        /\ dag_result.outcome = "exit"
        /\ dag_result.returncode = 0
        /\ dag_result.stdout # <<>>
        /\ \A i \in 1..Len(dag_result.stdout) : dag_result.stdout[i] = OtherLine) =>
            pc' = "raised"]_vars

(***************************************************************************)
(* C22: for every graph dump the oracle can answer with, the mapping       *)
(* _parse_dot_output builds on the loaded registry has the edge "t depends *)
(* on d" exactly when some edge line "A" -> "B" has d among the jobs A     *)
(* resolves to and t among the jobs B resolves to; and in every state no   *)
(* dependency list holds a job twice and no job has two lists.             *)
(***************************************************************************)
C22_EdgesAreProductsOfResolutions ==
    LET Resolution(name) == Range(_find_matching_jobs(job_configs, name))
        Built(dump) == load_dependencies_from_dvc(job_configs, dependencies, dump).value
        FromLine(dump, t, d) ==
            \E n \in 1..Len(dump.stdout) :
                /\ dump.stdout[n].kind = "edge"
                /\ d \in Resolution(dump.stdout[n].dependency)
                /\ t \in Resolution(dump.stdout[n].dependent)
    IN  /\ pc = "configs_loaded" =>
               \A dump \in {r \in PlanDagResults : r.returncode = 0 /\ r.stdout # <<>>} :
                   /\ DepKeys(Built(dump)) \subseteq Registered
                   /\ \A t \in Registered : \A d \in Registered :
                          Contains(DepsOf(Built(dump), t), d) <=> FromLine(dump, t, d)
        /\ \A i \in 1..Len(dependencies) :
               /\ \A j \in 1..Len(dependencies) :
                      dependencies[i].job = dependencies[j].job => i = j
               /\ \A m \in 1..Len(dependencies[i].deps) :
                      \A n \in 1..Len(dependencies[i].deps) :
                          dependencies[i].deps[m] = dependencies[i].deps[n] => m = n

\* the mapping built from a dump: a job that depends on the two jobs of a
\* stage, and two jobs that depend on the same job
C22_Witness ==
    /\ pc = "dependencies_loaded"
    /\ \E i \in 1..Len(dependencies) : Len(dependencies[i].deps) = 2
    /\ \E i \in 1..Len(dependencies) : \E j \in 1..Len(dependencies) :
           /\ i # j
           /\ Range(dependencies[i].deps) \cap Range(dependencies[j].deps) # {}

(***************************************************************************)
(* C23: _find_matching_jobs resolves the name stage@step of a registered   *)
(* job, and the identity stage:step itself, to that job alone; a name with *)
(* @ resolves as the same name with a colon does; and a bare name equal to *)
(* the stage of a registered job resolves to the registered jobs of that   *)
(* stage, each once, and to no other job.                                  *)
(***************************************************************************)
C23_AtFormAndBareStage ==
    pc = "node_matched" =>
        /\ \A job \in Registered :
               dvc_node \in {NodeAt(job), job} => matching_jobs = <<job>>
        /\ Contains(dvc_node, "@") =>
               matching_jobs = _find_matching_jobs(job_configs, Replace(dvc_node, "@", ":"))
        /\ dvc_node \in {StageOf(job) : job \in Registered} =>
               /\ Range(matching_jobs) = {job \in Registered : StageOf(job) = dvc_node}
               /\ Cardinality(Range(matching_jobs)) = Len(matching_jobs)

\* the bare stage a resolved to its two jobs, in a registry where the step
\* of a job of another stage is named a
C23_Witness ==
    /\ pc = "node_matched"
    /\ dvc_node = <<"a">>
    /\ matching_jobs = <<a_x, a_y>>
    /\ Contains(job_configs, b_a)

(***************************************************************************)
(* C24: a name that is the underscore-joined form stage_step of a          *)
(* registered job, and is neither a key nor a name with @, resolves to the *)
(* jobs whose identity with the colon replaced by an underscore equals it, *)
(* and to no other job.                                                    *)
(***************************************************************************)
C24_UnderscoreFormAlone ==
    LET joined == {job \in Registered : Replace(job, ":", "_") = dvc_node}
    IN  (/\ pc = "node_matched"
         /\ joined # {}
         /\ ~Contains(job_configs, dvc_node)
         /\ ~Contains(dvc_node, "@")) =>
            Range(matching_jobs) = joined

(***************************************************************************)
(* C25: for a name of the form stage@step, and for a bare name that is the *)
(* stage of a registered job, _dvc_stage_to_job_keys returns the same set  *)
(* of jobs as _find_matching_jobs.                                         *)
(***************************************************************************)
C25_SameResolutionInBothComponents ==
    (/\ pc = "stage_converted"
     /\ \/ Contains(dvc_node, "@") /\ ~Contains(dvc_node, ":")
        \/ dvc_node \in {StageOf(job) : job \in Registered}) =>
        Range(matching_jobs) = Range(_find_matching_jobs(job_configs, dvc_node))

C27_DocumentedPatterns ==
    pc \in {"target_matched", "exited"} =>
        /\ target_pattern = <<"^", "a", ":", ".", "*">> =>
               Range(matching_jobs) = {job \in Registered : StageOf(job) = <<"a">>}
        /\ target_pattern = <<"a", ".", "*">> =>
               Range(matching_jobs) = {job \in Registered : job[1] = "a"}

(***************************************************************************)
(* C28: a target pattern that matches no job does not become an empty      *)
(* TargetSet: get_target_jobs raises the ValueError that names the         *)
(* pattern, run_pipeline ends with that exception instead of returning,    *)
(* no prompt is shown and no job is submitted.                             *)
(***************************************************************************)
C28_UnmatchedTargetIsAnError ==
    (/\ target_pattern # NoTarget
     /\ _find_target_jobs_by_pattern(job_configs, target_pattern) = <<>>) =>
        /\ get_target_jobs(job_configs, dependencies, target_pattern).exc = "ValueError"
        /\ get_target_jobs(job_configs, dependencies, target_pattern).value
               = target_pattern
        /\ pc = "raised"
        /\ success = "none"
        /\ jobs_to_run = {}
        /\ io = <<>>
        /\ submitted_jobs = <<>>

\* the run was given the pattern q, which matches no job of the registry
C28_Witness ==
    /\ pc = "raised"
    /\ job_configs # <<>>
    /\ target_pattern = <<"q">>

(***************************************************************************)
(* C29: with include_cached set, filter_jobs_by_status returns the whole   *)
(* TargetSet whatever the verdicts are: the registry without a pattern,    *)
(* the closure of the matches with one.  This is also the value of the     *)
(* function that force-all mode puts in its place.                         *)
(***************************************************************************)
C29_IncludeCachedReturnsTargetSet ==
    (Filtered /\ include_cached) =>
        /\ jobs_to_run = TargetSet
        /\ TargetJobs(job_configs, dependencies, target_pattern).value = TargetSet
        /\ \A job \in TargetSet : job_status[job] \in {"cached", "needs_run"}

\* every job of the registry is Cached, and the jobs returned are the
\* closure of a pattern that leaves a job out
C29_Witness ==
    /\ Filtered /\ include_cached
    /\ \A job \in Registered : job_status[job] = "cached"
    /\ jobs_to_run # {}
    /\ jobs_to_run # Registered

(***************************************************************************)
(* C30: submitted_jobs is append-only during a run: every step keeps each  *)
(* entry in its place with its job and its id; no job has two entries; and *)
(* no two submission commands of the run are for the same job.             *)
(***************************************************************************)
C30_SubmittedJobsAppendOnly ==
    [][/\ Len(submitted_jobs') >= Len(submitted_jobs)
       /\ SubSeq(submitted_jobs', 1, Len(submitted_jobs)) = submitted_jobs
       /\ \A i \in 1..Len(submitted_jobs') : \A j \in 1..Len(submitted_jobs') :
              submitted_jobs'[i].job = submitted_jobs'[j].job => i = j
       /\ \A k \in 1..Len(io') : \A m \in 1..Len(io') :
              (/\ io'[k].ev = "command" /\ io'[m].ev = "command"
               /\ io'[k].job = io'[m].job) => k = m]_vars

\* a run that recorded the three jobs of the registry, in two batches or more
C30_Witness ==
    /\ pc = "returned"
    /\ Len(submitted_jobs) = 3
    /\ Len(execution_order) >= 2
    /\ ~dry_run

(***************************************************************************)
(* C31: a run goes through the phases Planning (up to the RunSet),         *)
(* Confirming (the submission prompt) and Executing (the batch loop) in    *)
(* this order and never back; once run_pipeline has returned, raised or    *)
(* exited nothing more is submitted; and a run whose calls return and      *)
(* whose prompts are answered reaches such a terminal state.               *)
(***************************************************************************)
C31_PhasesInOrderUntilTerminal ==
    /\ [][LET Phase(at) ==
                  IF at \in {"run_confirm"} THEN 2
                  ELSE IF at \in {"run_submit", "run_failed_prompt",
                                  "run_unexpected_prompt", "run_batch_prompt"} THEN 3
                  ELSE IF at \in {"returned", "raised", "exited"} THEN 4
                  ELSE 1
          IN  /\ Phase(pc') >= Phase(pc)
              /\ Phase(pc) = 4 =>
                     pc' = pc /\ io' = io /\ submitted_jobs' = submitted_jobs]_vars
    /\ <>(pc \in {"returned", "raised", "exited"})

\* a run that went through the three phases and returned after its last
\* batch with a failure counted
C31_Witness ==
    /\ pc = "returned"
    /\ ~dry_run
    /\ Len(execution_order) >= 2
    /\ batch_index = Len(execution_order)
    /\ failed_count > 0
    /\ submitted_jobs # <<>>

(***************************************************************************)
(* C32: get_execution_order returns, also for a graph with a cycle inside  *)
(* RunSet, and the RunSet jobs it puts in no batch are exactly those that  *)
(* lie on a cycle inside RunSet or reach such a job through dependencies   *)
(* inside RunSet.                                                          *)
(***************************************************************************)
C32_UnscheduledAreCycleBound ==
    LET InsideDeps(job) == DirectDeps(job) \cap jobs_to_run
        RECURSIVE InsideClosure(_)
        InsideClosure(S) ==
            LET T == S \cup UNION {InsideDeps(job) : job \in S}
            IN  IF T = S THEN S ELSE InsideClosure(T)
        InsideUpstream(job) == InsideClosure(InsideDeps(job))
        OnCycle(job) == job \in InsideUpstream(job)
    IN  pc = "ordered" =>
            jobs_to_run \ Scheduled =
                {job \in jobs_to_run :
                    \E c \in InsideUpstream(job) \cup {job} : OnCycle(c)}

\* a schedule with a batch, made for a RunSet in which two jobs depend on
\* each other and a third job, on no cycle itself, depends on one of them
C32_Witness ==
    /\ pc = "ordered"
    /\ execution_order # <<>>
    /\ \E j, k \in jobs_to_run \ Scheduled :
           /\ j # k
           /\ j \in DirectDeps(k)
           /\ k \in DirectDeps(j)
    /\ \E j \in jobs_to_run \ Scheduled :
           /\ j \notin DirectDeps(j)
           /\ \A d \in DirectDeps(j) : j \notin DirectDeps(d)

(***************************************************************************)
(* C33: when the submission command of a job runs, the command of every    *)
(* dependency of the job that is in RunSet has run before it in this run   *)
(* (it succeeded, or it failed and the run went on); no job is submitted   *)
(* ahead of a RunSet dependency whose submission was never attempted.      *)
(***************************************************************************)
C33_DependenciesAttemptedFirst ==
    \A k \in 1..Len(io) :
        IsCommand(k) =>
            \A dep \in DirectDeps(io[k].job) \cap jobs_to_run :
                \E m \in 1..(k - 1) : IsCommand(m) /\ io[m].job = dep

(***************************************************************************)
(* C34: every id of an afterok clause is an id the scheduler printed for   *)
(* an earlier submission command of this run; the placeholders unknown_N,  *)
(* failed_N and fake_N never appear in a clause.                           *)
(***************************************************************************)
C34_AfterokIdsAreSchedulerIds ==
    \A k \in 1..Len(io) :
        IsCommand(k) =>
            \A n \in 1..Len(io[k].afterok) :
                /\ io[k].afterok[n].prefix = ""
                /\ \E m \in 1..(k - 1) :
                       /\ IsCommand(m)
                       /\ io[m].outcome = "id"
                       /\ io[k].afterok[n] =
                              JobId("", Cardinality({c \in 1..m : IsCommand(c)}))

(***************************************************************************)
(* C35: all submission commands of a run carry the same run-group label:   *)
(* it is generated at the first submit_job call that builds a command and  *)
(* every later command gets the identical value, whatever happened (and    *)
(* however much time passed) in between.                                   *)
(***************************************************************************)
C35_OneRunGroupPerRun ==
    /\ Commands = <<>> => _run_group_id = NoRunGroup
    /\ \A k \in 1..Len(Commands) :
           /\ Commands[k].run_group # NoRunGroup
           /\ Commands[k].run_group = Commands[1].run_group
           /\ Commands[k].run_group = _run_group_id

\* two commands with a prompt answered between them, the label generated
\* from the clock
C35_Witness ==
    \E k, m \in 1..Len(io) :
        /\ k + 1 < m
        /\ IsCommand(k)
        /\ IsCommand(m)
        /\ io[k].run_group.kind = "generated"
        /\ io[k + 1].ev = "input"

(***************************************************************************)
(* C36: every key of the dependency mapping and every element of its lists *)
(* is an identity of the Job Registry, whatever node names the graph dump  *)
(* contains (the dumps of the model name c@w also where the registry has   *)
(* no job c:w).                                                            *)
(***************************************************************************)
C36_DependenciesAreRegistered ==
    \A i \in 1..Len(dependencies) :
        /\ dependencies[i].job \in Registered
        /\ Range(dependencies[i].deps) \subseteq Registered

\* a mapping built for a registry without c:w, with two keys, one of them
\* with two dependencies
C36_Witness ==
    /\ pc = "dependencies_loaded"
    /\ c_w \notin Registered
    /\ Len(dependencies) >= 2
    /\ \E i \in 1..Len(dependencies) : Len(dependencies[i].deps) >= 2

(***************************************************************************)
(* C37: no job is recorded as a dependency of itself: for every registry   *)
(* and every graph dump whose edge lines join two different node names     *)
(* (the only dumps of the model), no job is in its own dependency list.    *)
(***************************************************************************)
C37_NoSelfDependency ==
    \A i \in 1..Len(dependencies) :
        ~Contains(dependencies[i].deps, dependencies[i].job)

(***************************************************************************)
(* C38: merge_locks(base, branch) returns a lock whose stage names are the *)
(* union of those of base and branch; a stage of the branch alone is added *)
(* with the branch's data, a stage of both gets the branch's data if and   *)
(* only if the two path-to-md5 mappings of the outputs differ and keeps    *)
(* the base's data otherwise; added + updated + skipped is the number of   *)
(* branch stages.                                                          *)
(***************************************************************************)
C38_MergeLocksUnion ==
    LET call == merge_call
        Names(lock) == {lock.stages[i].name : i \in 1..Len(lock.stages)}
        Data(lock, name) ==
            lock.stages[CHOOSE i \in 1..Len(lock.stages) : lock.stages[i].name = name].data
        OutMap(data) == {<<data.outs[i].path, data.outs[i].md5>> : i \in 1..Len(data.outs)}
    IN  call.made =>
            /\ merged_lock.has_stages
            /\ Names(merged_lock) = Names(call.base_lock) \cup Names(call.branch_lock)
            /\ \A name \in Names(call.branch_lock) \ Names(call.base_lock) :
                   Data(merged_lock, name) = Data(call.branch_lock, name)
            /\ \A name \in Names(call.base_lock) \ Names(call.branch_lock) :
                   Data(merged_lock, name) = Data(call.base_lock, name)
            /\ \A name \in Names(call.branch_lock) \cap Names(call.base_lock) :
                   Data(merged_lock, name) =
                       IF OutMap(Data(call.base_lock, name))
                              # OutMap(Data(call.branch_lock, name))
                       THEN Data(call.branch_lock, name)
                       ELSE Data(call.base_lock, name)
            /\ call.stats.added + call.stats.updated + call.stats.skipped
                   = Len(call.branch_lock.stages)

\* a call that updated one stage and skipped another whose data differs
\* from the branch's in the command only
C38_Witness ==
    /\ merge_call.made
    /\ merge_call.stats.updated = 1
    /\ merge_call.stats.skipped = 1
    /\ \E i \in 1..Len(merge_call.base_lock.stages) :
           /\ merge_call.base_lock.stages[i] \in Range(merged_lock.stages)
           /\ merge_call.base_lock.stages[i] \notin Range(merge_call.branch_lock.stages)

(***************************************************************************)
(* C39: merge_locks leaves the object passed as base unchanged: after the  *)
(* call it has the same stage names and the same data for each stage as    *)
(* when it was passed.                                                     *)
(***************************************************************************)
C39_BaseUnchanged == merge_call.made => merge_call.base_lock_after = merge_call.base_lock

(***************************************************************************)
(* C40: in dry-run mode merge_from_branches creates no work branch, writes *)
(* no dvc.lock and makes no commit; and in every mode, when it returns,    *)
(* also after branches whose processing raised an error, the original      *)
(* branch is checked out.                                                  *)
(***************************************************************************)
C40_DryRunAndReturnToOriginal ==
    /\ merge_dry_run => ~work_branch_created /\ ~lock_written /\ ~committed
    /\ pc = "merge_returned" => checked_out = original_branch

\* a dry run that has returned after two branches, the first merged and
\* the second with an error, with stages to write
C40_Witness ==
    /\ pc = "merge_returned"
    /\ merge_dry_run
    /\ Len(branches) = 2
    /\ branch_errors = {branches[2]}
    /\ merge_call.made
    /\ Len(merged_lock.stages) > 0

====
